---- MODULE Spec2Model ----
(***************************************************************************)
(* Synclify: the add-only reconciliation run of legacy_sync.main, started  *)
(* from the CLI menu (cli.SynclifyCLI.run, option 1).  The module globals  *)
(* STATE, PLAN_MODE_ONLY, pending_web_adds, added_video_ids and cache live *)
(* for the whole process; everything else is local to one call of main().  *)
(*                                                                         *)
(* Tracks of the missing list are abstracted to their position 1..n, and   *)
(* destination identifiers (video ids / track URIs) to 1..NumIds; None is  *)
(* 0.  One page is read per playlist.  A remote call under retry_call is   *)
(* one step, taken with the outcome its attempts end with.                 *)
(***************************************************************************)
EXTENDS Integers, Sequences, FiniteSets, TLC

\* ---------- bounds ----------
MaxItems == 3
NumIds == 2
MaxRuns == 2
MaxResults == 2
MaxTracks == 3

MaxSrcTracks == 2
MaxDstTracks == 2

MaxTextLen == 3
MaxArtists == 2
MaxCalls == 2
MaxGiven == 2
MaxUris == 201
MaxEntries == 3

MaxTitleLen == 3

\* ---------- program constants ----------
RETRY_MAX_TRIES == 5
WEB_SEARCH_TRIES == 3

SPOTIFY_ADD_BATCH == 100
WEB_ACCEPT_SCORE == 35      \* 0.35, in hundredths
WEB_SHOWN == 5

None == 0
Ids == 1..NumIds
IdOrNone == 0..NumIds
Tracks == 1..MaxItems
Services == {"spotify", "youtube"}

\* outcomes of one attempt of a remote call, as retry_call tells them apart
YTOutcomes == {"ok", "quota", "transient", "fatal", "timeout"}
SPOutcomes == {"ok", "sp429", "sperr", "timeout"}

VARIABLES
    pc,                 \* position of the process
    runs,               \* number of runs started from the menu
    dst,                \* destination service of this run
    n, i,               \* len(to_add) and the 1-based position of the current item
    vid,                \* identifier resolved for the current item
    off,                \* offset of the next Spotify batch
    STATE_,             \* legacy_sync.STATE (STATE is a reserved word)
    PLAN_MODE_ONLY,
    pending_web_adds,
    added_video_ids,
    cache,              \* SearchCache.data, keyed by cache_key
    to_add_sp_uris,
    \* ----- observation (history) variables -----
    evs,                \* what the last step did
    tried,              \* strategies attempted for the last item started, in order
    hitAt,              \* strategy that produced its identifier, or "none"
    promptCount,        \* after-quota prompts shown in this run
    planPromptCount,    \* planning-mode prompts shown in this run
    insertLog,          \* <<service, identifier>> written to the destination in this run
    quotaSeen,          \* a quota error has been received by this process
    outcome,            \* how the last run ended
    exported,           \* lines of the planning file written by this run
    \* ----- one call of retry_call, attempt by attempt -----
    rpc,                \* "idle", "calling", "returned" or "raised"
    rtries,             \* the local variable tries
    routs,              \* what each attempt so far ended with
    \* ----- one application of a pure function -----
    fphase,             \* "idle", "input" or "done"
    farg,               \* the argument
    fres                \* the value returned

vars == <<pc, runs, dst, n, i, vid, off, STATE_, PLAN_MODE_ONLY,
          pending_web_adds, added_video_ids, cache, to_add_sp_uris, evs, tried,
          hitAt, promptCount, planPromptCount, insertLog, quotaSeen, outcome,
          exported, rpc, rtries, routs, fphase, farg, fres>>

\* the variables of the step-by-step views, which a reconciliation run leaves alone
aux == <<rpc, rtries, routs, fphase, farg, fres>>

globals == <<STATE_, PLAN_MODE_ONLY, pending_web_adds, added_video_ids, cache>>

Range(s) == {s[k] : k \in 1..Len(s)}

Min(a, b) == IF a < b THEN a ELSE b

\* the identifier the destination catalogue holds for track t (two tracks may
\* share one); a search, a web result or a pasted URL yields it or nothing
CatalogId(t) == ((t - 1) % NumIds) + 1

Found(t) == {None, CatalogId(t)}

\* ---------- cache ----------
cache_key(service, t) == <<service, t>>

\* variant: put drops the entry
CachePut_Drop(c, k, v) == c

CachePut(c, k, v) == [c EXCEPT ![k] = v]

\* ---------- writes to the destination ----------
\* variant: the call replaces the items of the playlist
Inserted_Replace(log, service, ids) ==
    [b \in 1..Len(ids) |-> <<service, ids[b]>>]

\* playlistItems().insert / playlist_add_items: the items written so far
Inserted(log, service, ids) ==
    log \o [b \in 1..Len(ids) |-> <<service, ids[b]>>]

\* ---------- retry_call ----------
\* ---------- one attempt of a remote call ----------
Att(kind, status, quota, rate) ==
    [kind |-> kind, status |-> status, quota |-> quota, rate |-> rate]

\* kind: the call returned ("ok") or raised HttpError ("http"), socket.timeout /
\* TimeoutError ("timeout"), SpotifyException ("spotify"), anything else ("other");
\* status: the HTTP status; quota: the text holds "quota" and "exceeded";
\* rate: the text holds "rate limit" or "userratelimitexceeded"
Attempts ==
    {Att("ok", 0, FALSE, FALSE), Att("timeout", 0, FALSE, FALSE),
     Att("other", 0, FALSE, FALSE),
     Att("spotify", 429, FALSE, FALSE), Att("spotify", 400, FALSE, FALSE),
     Att("http", 400, FALSE, FALSE), Att("http", 429, FALSE, FALSE),
     Att("http", 500, FALSE, FALSE)}
    \cup {Att("http", 403, q, r) : q \in BOOLEAN, r \in BOOLEAN}

is_retriable_http_error(a) ==
    IF 500 <= a.status /\ a.status <= 599 THEN TRUE
    ELSE IF a.status = 429 THEN TRUE
    ELSE IF a.status = 403 THEN (IF a.quota THEN FALSE ELSE a.rate)
    ELSE FALSE

\* variant: the rate-limit test comes before the quota test
Classify_RateFirst(a) ==
    IF a.kind = "http"
    THEN (IF a.status = 403 /\ a.rate THEN "transient"
          ELSE IF a.status = 403 /\ a.quota THEN "quota"
          ELSE IF is_retriable_http_error(a) THEN "transient" ELSE "fatal")
    ELSE IF a.kind = "spotify" THEN (IF a.status = 429 THEN "sp429" ELSE "sperr")
    ELSE a.kind

\* the branch of retry_call an attempt falls in
Classify(a) ==
    IF a.kind = "http"
    THEN (IF a.status = 403 /\ a.quota THEN "quota"
          ELSE IF is_retriable_http_error(a) THEN "transient" ELSE "fatal")
    ELSE IF a.kind = "spotify" THEN (IF a.status = 429 THEN "sp429" ELSE "sperr")
    ELSE a.kind

\* variant: the attempt counter is compared with <=
RetryDecision_OneMore(out, t) ==
    IF out = "ok" THEN "return"
    ELSE IF out = "quota" THEN "raise"
    ELSE IF out \in {"transient", "timeout", "sp429"}
         THEN (IF t <= RETRY_MAX_TRIES THEN "retry" ELSE "raise")
    ELSE "raise"

\* what retry_call does after attempt number t ended with outcome out
RetryDecision(out, t) ==
    IF out = "ok" THEN "return"
    ELSE IF out = "quota" THEN "raise"
    ELSE IF out = "transient" THEN (IF t < RETRY_MAX_TRIES THEN "retry" ELSE "raise")
    ELSE IF out = "timeout" THEN (IF t < RETRY_MAX_TRIES THEN "retry" ELSE "raise")
    ELSE IF out = "sp429" THEN (IF t < RETRY_MAX_TRIES THEN "retry" ELSE "raise")
    ELSE "raise"

\* retry_call(fn) when every attempt ends with outcome out: the decision taken
\* at the first attempt that is not retried
retry_call(out) ==
    LET t == CHOOSE a \in 1..RETRY_MAX_TRIES :
                 /\ RetryDecision(out, a) # "retry"
                 /\ \A b \in 1..(a - 1) : RetryDecision(out, b) = "retry"
    IN  RetryDecision(out, t)

\* the exception class that leaves retry_call
Raised(out) ==
    IF out \in {"quota", "transient", "fatal"} THEN "HttpError"
    ELSE IF out = "timeout" THEN "Timeout"
    ELSE "SpotifyException"

\* variant: a call that does not hit the quota re-enables the API search
RetryState_Reenable(S, out) ==
    [S EXCEPT !.yt_search_disabled = (out = "quota")]

\* variant: the quota error is raised without latching yt_search_disabled
RetryState_NoLatch(S, out) == S

\* STATE after retry_call has handled outcome out
RetryState(S, out) ==
    IF out = "quota" THEN [S EXCEPT !.yt_search_disabled = TRUE] ELSE S

\* variant: every HttpError counts as quotaExceeded
is_quota_exceeded_http_error_Any(out) == TRUE

is_quota_exceeded_http_error(out) == out = "quota"

\* ---------- prompt_after_quota ----------
PromptShown(S) == ~S.prompted_after_quota

prompt_after_quota(S, opt) ==
    IF S.prompted_after_quota THEN S
    ELSE [S EXCEPT !.prompted_after_quota = TRUE,
                   !.continue_manual_after_quota = (opt = 1),
                   !.continue_web_auto_after_quota = (opt = 2)]

\* except HttpError branch of the API search: main returns when no mode is chosen
SearchErrorStops(S, opt) ==
    LET P == prompt_after_quota(S, opt)
    IN  ~P.continue_manual_after_quota /\ ~P.continue_web_auto_after_quota

\* ... and the flags it leaves
SearchErrorState(S, opt) ==
    LET P == prompt_after_quota(S, opt)
    IN  IF SearchErrorStops(S, opt) THEN P
        ELSE [P EXCEPT !.yt_search_disabled = TRUE]

\* ---------- planning-mode queue ----------
\* variant: the identifier is queued without looking at added_video_ids
QueuePending_NoGuard(p, added, v) == Append(p, v)

\* variant: the identifier is dropped
QueuePending_Lose(p, added, v) == p

QueuePending(p, added, v) == IF v \notin added THEN Append(p, v) ELSE p

\* variant: the item always goes to the web fallback
FallbackPc_AlwaysWeb(S) == "web"

\* variant: the item always goes to manual entry
FallbackPc_AlwaysManual(S) == "manual"

\* the branch taken at "2) If API not available / no result"
FallbackPc(S) == IF S.continue_manual_after_quota THEN "manual" ELSE "web"

\* variant: the API search is tried even when the cache gave an identifier
SearchAllowed_IgnoreHit(S, plan, v) == ~S.yt_search_disabled /\ ~plan

\* the API search guard of step 1
SearchAllowed(S, plan, v) == v = None /\ ~S.yt_search_disabled /\ ~plan

\* ---------- initial state: module import ----------
Init ==
    /\ pc = "menu"
    /\ runs = 0
    /\ dst = "none"
    /\ n = 0 /\ i = 0 /\ vid = None /\ off = 0
    /\ STATE_ = [yt_search_disabled |-> FALSE,
                 prompted_after_quota |-> FALSE,
                 continue_manual_after_quota |-> FALSE,
                 continue_web_auto_after_quota |-> FALSE]
    /\ PLAN_MODE_ONLY = FALSE
    /\ pending_web_adds = <<>>
    /\ added_video_ids = {}
    /\ cache = [k \in Services \X Tracks |-> None]
    /\ to_add_sp_uris = <<>>
    /\ evs = {}
    /\ tried = <<>>
    /\ hitAt = "none"
    /\ promptCount = 0
    /\ planPromptCount = 0
    /\ insertLog = <<>>
    /\ quotaSeen = FALSE
    /\ outcome = "none"
    /\ exported = <<>>
    /\ rpc = "idle" /\ rtries = 0 /\ routs = <<>>
    /\ fphase = "idle" /\ farg = <<>> /\ fres = <<>>

\* ---------- ways a run ends ----------
\* the locals of main() are gone once it has returned or raised
LocalsGone ==
    /\ dst' = "none"
    /\ n' = 0 /\ i' = 0 /\ vid' = None /\ off' = 0
    /\ to_add_sp_uris' = <<>>
    /\ tried' = <<>> /\ hitAt' = "none"

\* an exception leaves main(): nothing in cli.py catches it
Abort(ev) ==
    /\ pc' = "dead"
    /\ outcome' = "error"
    /\ evs' = ev \cup {"abort"}
    /\ LocalsGone

\* main() returns early after a user "stop" / "no"
Stop(ev) ==
    /\ pc' = "menu"
    /\ outcome' = "stopped"
    /\ evs' = ev \cup {"stop"}
    /\ LocalsGone

\* progress.update(task, advance=1) and the loop header
NextItem ==
    /\ vid' = None
    /\ IF i < n THEN i' = i + 1 /\ pc' = "item"
                ELSE i' = i /\ pc' = "finish"

\* ---------- menu ----------
\* option 1: legacy_sync.main() up to the summary of the selection
StartRun(s, d) ==
    /\ pc = "menu"
    /\ UNCHANGED aux
    /\ runs < MaxRuns
    /\ runs' = runs + 1
    /\ pc' = IF s = "spotify" THEN "load_src_sp" ELSE "load_src_yt"
    /\ dst' = d
    /\ n' = 0 /\ i' = 0 /\ vid' = None /\ off' = 0
    /\ to_add_sp_uris' = <<>>
    /\ evs' = {"start"}
    /\ tried' = <<>> /\ hitAt' = "none"
    /\ promptCount' = 0 /\ planPromptCount' = 0 /\ insertLog' = <<>>
    /\ outcome' = "running" /\ exported' = <<>>
    /\ UNCHANGED quotaSeen
    /\ UNCHANGED globals

\* KeyboardInterrupt while a run is in progress
Interrupt ==
    /\ pc \notin {"menu", "dead"}
    /\ UNCHANGED aux
    /\ pc' = "dead"
    /\ outcome' = "interrupted"
    /\ evs' = {"interrupt"}
    /\ LocalsGone
    /\ UNCHANGED <<runs, promptCount, planPromptCount, insertLog, quotaSeen, exported>>
    /\ UNCHANGED globals

\* ---------- loading the two playlists ----------
OutcomesOf(service) == IF service = "spotify" THEN SPOutcomes ELSE YTOutcomes

\* get_spotify_tracks / get_youtube_playlist_tracks on the source: no handler
LoadSource(out) ==
    /\ pc \in {"load_src_sp", "load_src_yt"}
    /\ UNCHANGED aux
    /\ out \in OutcomesOf(IF pc = "load_src_sp" THEN "spotify" ELSE "youtube")
    /\ STATE_' = RetryState(STATE_, out)
    /\ quotaSeen' = (quotaSeen \/ out = "quota")
    /\ UNCHANGED <<runs, PLAN_MODE_ONLY, pending_web_adds, added_video_ids, cache,
                   promptCount, planPromptCount, insertLog, exported>>
    /\ IF retry_call(out) = "return"
       THEN /\ pc' = "load_dst"
            /\ evs' = {"read_req"}
            /\ UNCHANGED <<dst, n, i, vid, off, to_add_sp_uris, tried, hitAt, outcome>>
       ELSE Abort({"read_req"})

\* the missing list has m items; the loop starts if there is one
Reconcile(m) ==
    /\ n' = m
    /\ IF m > 0 THEN i' = 1 /\ pc' = "item" ELSE i' = 0 /\ pc' = "finish"
    /\ UNCHANGED <<dst, vid, off, to_add_sp_uris, tried, hitAt, outcome>>

\* destination read; for YouTube the quota error is handled (planning mode)
LoadDest(out, m, cont) ==
    /\ pc = "load_dst"
    /\ UNCHANGED aux
    /\ out \in OutcomesOf(dst)
    /\ LET S == RetryState(STATE_, out) IN
       /\ quotaSeen' = (quotaSeen \/ out = "quota")
       /\ UNCHANGED <<runs, pending_web_adds, added_video_ids, cache,
                      promptCount, insertLog, exported>>
       /\ planPromptCount' =
              IF retry_call(out) = "raise" /\ dst = "youtube"
                    /\ Raised(out) = "HttpError" /\ is_quota_exceeded_http_error(out)
              THEN planPromptCount + 1 ELSE planPromptCount
       /\ CASE retry_call(out) = "return" ->
                 /\ evs' = {"read_req"}
                 /\ STATE_' = S
                 /\ UNCHANGED PLAN_MODE_ONLY
                 /\ Reconcile(m)
            [] retry_call(out) = "raise" /\ dst = "youtube"
                    /\ Raised(out) = "HttpError" /\ is_quota_exceeded_http_error(out) ->
                 IF cont
                 THEN /\ PLAN_MODE_ONLY' = TRUE
                      /\ STATE_' = [S EXCEPT !.yt_search_disabled = TRUE,
                                             !.continue_web_auto_after_quota = TRUE]
                      /\ evs' = {"read_req", "read_quota", "plan_prompt", "plan_yes"}
                      /\ Reconcile(m)
                 ELSE /\ STATE_' = [S EXCEPT !.yt_search_disabled = TRUE]
                      /\ UNCHANGED PLAN_MODE_ONLY
                      /\ Stop({"read_req", "read_quota", "plan_prompt", "plan_no"})
            [] OTHER ->
                 /\ STATE_' = S
                 /\ UNCHANGED PLAN_MODE_ONLY
                 /\ Abort({"read_req"})

\* ---------- per-item cascade, destination YouTube ----------
ItemFrame == UNCHANGED <<aux, runs, dst, n, off, to_add_sp_uris, promptCount, planPromptCount,
                         insertLog, quotaSeen, outcome, exported>>

\* cache.get, then the choice of the next strategy
YtCacheLookup ==
    /\ pc = "item" /\ dst = "youtube"
    /\ LET v == cache[cache_key("youtube", i)] IN
       /\ vid' = v
       /\ tried' = <<"cache">>
       /\ hitAt' = IF v # None THEN "cache" ELSE "none"
       /\ pc' = IF SearchAllowed(STATE_, PLAN_MODE_ONLY, v) THEN "search"
                ELSE IF v = None THEN FallbackPc(STATE_)
                ELSE "step3"
    /\ evs' = {"cache_get"}
    /\ UNCHANGED i
    /\ ItemFrame
    /\ UNCHANGED globals

\* yt_search_one under retry_call, with the except HttpError handler of main
YtSearch(out, res, opt) ==
    /\ pc = "search"
    /\ UNCHANGED aux
    /\ res \in Found(i)
    /\ out \in YTOutcomes
    /\ LET S == RetryState(STATE_, out) IN
       /\ quotaSeen' = (quotaSeen \/ (out = "quota" /\ ~STATE_.yt_search_disabled))
       /\ UNCHANGED <<runs, PLAN_MODE_ONLY, pending_web_adds,
                      added_video_ids, cache, insertLog, exported, planPromptCount>>
       /\ CASE STATE_.yt_search_disabled ->
                 \* yt_search_one returns None without a request
                 /\ tried' = Append(tried, "search")
                 /\ vid' = None
                 /\ hitAt' = "none"
                 /\ pc' = FallbackPc(STATE_)
                 /\ evs' = {"search_skipped"}
                 /\ UNCHANGED <<STATE_, dst, n, i, off, to_add_sp_uris, promptCount,
                                outcome>>
            [] retry_call(out) = "return" ->
                 /\ tried' = Append(tried, "search")
                 /\ STATE_' = S
                 /\ vid' = res
                 /\ hitAt' = IF res # None THEN "search" ELSE "none"
                 /\ pc' = IF res # None THEN "step3" ELSE FallbackPc(S)
                 /\ evs' = {"search_req", "search_ok"}
                 /\ UNCHANGED <<dst, n, i, off, to_add_sp_uris, promptCount, outcome>>
            [] retry_call(out) = "raise" /\ Raised(out) = "HttpError" ->
                 LET ev == {"search_req", "search_error"}
                             \cup (IF out = "quota" THEN {"search_quota"} ELSE {})
                             \cup (IF PromptShown(S) THEN {"quota_prompt"} ELSE {}) IN
                 /\ STATE_' = SearchErrorState(S, opt)
                 /\ promptCount' = IF PromptShown(S) THEN promptCount + 1 ELSE promptCount
                 /\ IF SearchErrorStops(S, opt)
                    THEN Stop(ev)
                    ELSE /\ tried' = Append(tried, "search")
                         /\ vid' = None
                         /\ hitAt' = "none"
                         /\ pc' = FallbackPc(SearchErrorState(S, opt))
                         /\ evs' = ev
                         /\ UNCHANGED <<dst, n, i, off, to_add_sp_uris, outcome>>
            [] OTHER ->
                 /\ STATE_' = S
                 /\ UNCHANGED promptCount
                 /\ Abort({"search_req", "search_timeout"})

\* scores of the best candidate, in hundredths: just below and at the threshold
Scores == {WEB_ACCEPT_SCORE - 1, WEB_ACCEPT_SCORE}

\* pick_best_web_result: nres results, the best one scores `score` and its URL
\* parses to `best`
pick_best_web_result(nres, score, best) ==
    IF nres = 0 THEN None
    ELSE IF score >= WEB_ACCEPT_SCORE THEN best
    ELSE None

\* the number of rows of the table and the upper end of input_index
Shown(nres) == Min(WEB_SHOWN, nres)

\* pick_from_web_results: idx is the answer of input_index, `sel` what the URL of
\* the returned row parses to
pick_from_web_results(nres, idx, sel) ==
    IF nres = 0 THEN None
    ELSE IF nres = 1 THEN sel
    ELSE IF idx = 0 THEN None
    ELSE sel

\* google_music_search, pick_best_web_result, pick_from_web_results
WebFallback(nres, score, idx, best, sel) ==
    /\ pc = "web"
    /\ ~STATE_.continue_manual_after_quota
    /\ best \in Found(i) /\ sel \in Found(i)
    /\ idx \in 0..Shown(nres)
    /\ nres = 0 => (score = WEB_ACCEPT_SCORE - 1 /\ best = None /\ sel = None)
    /\ nres = 1 => sel = best
    /\ LET auto == pick_best_web_result(nres, score, best)
           asked == auto = None /\ nres > 1
           v == IF auto # None THEN auto ELSE pick_from_web_results(nres, idx, sel)
       IN
       /\ ~asked => idx = 0
       /\ (nres > 1 /\ idx = 0) => sel = None
       /\ vid' = v
       /\ tried' = Append(tried, "web")
       /\ hitAt' = IF v # None THEN "web" ELSE "none"
       /\ pc' = IF v # None THEN "step3" ELSE "manual"
       /\ evs' = {"web_query"}
                   \cup (IF nres > 0 /\ score >= WEB_ACCEPT_SCORE THEN {"score_ok"} ELSE {})
                   \cup (IF auto # None THEN {"web_auto"} ELSE {})
                   \cup (IF asked THEN {"pick_prompt"} ELSE {})
                   \cup (IF asked /\ idx \in 1..WEB_SHOWN THEN {"picked"} ELSE {})
    /\ UNCHANGED i
    /\ ItemFrame
    /\ UNCHANGED globals

\* "Paste URL (or ENTER to skip)" and parse_youtube_video_id
ManualEntry(inp) ==
    /\ pc = "manual" /\ dst = "youtube"
    /\ inp \in Found(i)
    /\ tried' = Append(tried, "manual")
    /\ IF inp # None
       THEN /\ vid' = inp /\ hitAt' = "manual" /\ pc' = "step3"
            /\ evs' = {"manual_prompt"}
            /\ UNCHANGED i
       ELSE /\ NextItem
            /\ hitAt' = "none"
            /\ evs' = {"manual_prompt", "unresolved"}
    /\ ItemFrame
    /\ UNCHANGED globals

\* "3) Insert (or collect in planning mode) and cache": the branch without a remote call
Step3 ==
    /\ pc = "step3" /\ dst = "youtube"
    /\ vid # None
    /\ IF PLAN_MODE_ONLY
       THEN /\ pending_web_adds' = QueuePending(pending_web_adds, added_video_ids, vid)
            /\ added_video_ids' = added_video_ids \cup {vid}
            /\ cache' = CachePut(cache, cache_key("youtube", i), vid)
            /\ evs' = {"step3", "plan_branch", "cache_put"}
                        \cup (IF vid \notin added_video_ids THEN {"queued"} ELSE {})
            /\ NextItem
       ELSE IF vid \in added_video_ids
       THEN \* add_youtube_videos skips the id and returns
            /\ cache' = CachePut(cache, cache_key("youtube", i), vid)
            /\ evs' = {"step3", "insert_skipped", "cache_put"}
            /\ UNCHANGED <<pending_web_adds, added_video_ids>>
            /\ NextItem
       ELSE /\ pc' = "inserting"
            /\ evs' = {"step3"}
            /\ UNCHANGED <<i, vid, pending_web_adds, added_video_ids, cache>>
    /\ UNCHANGED <<STATE_, PLAN_MODE_ONLY, tried, hitAt>>
    /\ ItemFrame

\* playlistItems().insert under retry_call, with the except HttpError handler of main
YtInsert(out, yes) ==
    /\ pc = "inserting"
    /\ UNCHANGED aux
    /\ out \in YTOutcomes
    /\ STATE_' = RetryState(STATE_, out)
    /\ quotaSeen' = (quotaSeen \/ out = "quota")
    /\ UNCHANGED <<runs, promptCount, exported>>
    /\ planPromptCount' =
           IF retry_call(out) = "raise" /\ Raised(out) = "HttpError"
                 /\ is_quota_exceeded_http_error(out)
           THEN planPromptCount + 1 ELSE planPromptCount
    /\ CASE retry_call(out) = "return" ->
              /\ added_video_ids' = added_video_ids \cup {vid}
              /\ insertLog' = Inserted(insertLog, "youtube", <<vid>>)
              /\ cache' = CachePut(cache, cache_key("youtube", i), vid)
              /\ evs' = {"insert_req", "insert_ok", "cache_put"}
              /\ NextItem
              /\ UNCHANGED <<dst, n, off, to_add_sp_uris, outcome, PLAN_MODE_ONLY,
                             pending_web_adds, tried, hitAt>>
         [] retry_call(out) = "raise" /\ Raised(out) = "HttpError"
                 /\ is_quota_exceeded_http_error(out) ->
              IF yes
              THEN /\ PLAN_MODE_ONLY' = TRUE
                   /\ pending_web_adds' =
                          QueuePending(pending_web_adds, added_video_ids, vid)
                   /\ added_video_ids' = added_video_ids \cup {vid}
                   /\ evs' = {"insert_req", "insert_quota", "plan_prompt", "plan_yes"}
                   /\ NextItem
                   /\ UNCHANGED <<dst, n, off, to_add_sp_uris, outcome, cache,
                                  insertLog, tried, hitAt>>
              ELSE /\ Stop({"insert_req", "insert_quota", "plan_prompt", "plan_no"})
                   /\ UNCHANGED <<PLAN_MODE_ONLY, pending_web_adds, added_video_ids,
                                  cache, insertLog>>
         [] retry_call(out) = "raise" /\ Raised(out) = "HttpError"
                 /\ ~is_quota_exceeded_http_error(out) ->
              \* logged: "Insert failed on YouTube"
              /\ evs' = {"insert_req", "insert_failed"}
              /\ NextItem
              /\ UNCHANGED <<dst, n, off, to_add_sp_uris, outcome, PLAN_MODE_ONLY,
                             pending_web_adds, added_video_ids, cache, insertLog,
                             tried, hitAt>>
         [] OTHER ->
              /\ Abort({"insert_req", "insert_timeout"})
              /\ UNCHANGED <<PLAN_MODE_ONLY, pending_web_adds, added_video_ids,
                             cache, insertLog>>

\* ---------- per-item cascade, destination Spotify ----------
SpFrame == UNCHANGED <<aux, runs, promptCount, planPromptCount, insertLog, exported, STATE_,
                       PLAN_MODE_ONLY, pending_web_adds, added_video_ids, quotaSeen>>

SpCacheLookup ==
    /\ pc = "item" /\ dst = "spotify"
    /\ LET uri == cache[cache_key("spotify", i)] IN
       /\ tried' = <<"cache">>
       /\ evs' = {"cache_get"}
       /\ IF uri # None
          THEN /\ hitAt' = "cache"
               /\ to_add_sp_uris' = Append(to_add_sp_uris, uri)
               /\ NextItem
          ELSE /\ hitAt' = "none"
               /\ pc' = "sp_search"
               /\ UNCHANGED <<i, vid, to_add_sp_uris>>
    /\ UNCHANGED <<cache, dst, n, off, outcome>>
    /\ SpFrame

\* sp_search_one: retry_call(sp.search), SpotifyException is logged and gives None
SpSearch(out, res) ==
    /\ pc = "sp_search"
    /\ res \in Found(i)
    /\ out \in SPOutcomes
    /\ CASE retry_call(out) = "return" /\ res # None ->
              /\ tried' = Append(tried, "search")
              /\ hitAt' = "search"
              /\ cache' = CachePut(cache, cache_key("spotify", i), res)
              /\ to_add_sp_uris' = Append(to_add_sp_uris, res)
              /\ evs' = {"search_req", "search_ok", "cache_put"}
              /\ NextItem
              /\ UNCHANGED <<dst, n, off, outcome>>
         [] retry_call(out) = "return" /\ res = None ->
              /\ tried' = Append(tried, "search")
              /\ pc' = "sp_manual"
              /\ evs' = {"search_req", "search_ok"}
              /\ UNCHANGED <<i, vid, hitAt, to_add_sp_uris, cache, dst, n, off, outcome>>
         [] retry_call(out) = "raise" /\ Raised(out) = "SpotifyException" ->
              /\ tried' = Append(tried, "search")
              /\ pc' = "sp_manual"
              /\ evs' = {"search_req", "search_error"}
              /\ UNCHANGED <<i, vid, hitAt, to_add_sp_uris, cache, dst, n, off, outcome>>
         [] OTHER ->
              /\ Abort({"search_req", "search_timeout"})
              /\ UNCHANGED cache
    /\ SpFrame

\* "Not found on Spotify ... Paste URL" and parse_spotify_track_uri
SpManual(inp) ==
    /\ pc = "sp_manual"
    /\ inp \in Found(i)
    /\ tried' = Append(tried, "manual")
    /\ hitAt' = IF inp # None THEN "manual" ELSE "none"
    /\ to_add_sp_uris' = IF inp # None THEN Append(to_add_sp_uris, inp)
                         ELSE to_add_sp_uris
    /\ evs' = {"manual_prompt"} \cup (IF inp = None THEN {"unresolved"} ELSE {})
    /\ NextItem
    /\ UNCHANGED <<cache, dst, n, off, outcome>>
    /\ SpFrame

\* ---------- after the loop ----------
\* the planning file and the final summary; main() returns
Complete(ev) ==
    /\ exported' = IF dst = "youtube" /\ PLAN_MODE_ONLY /\ pending_web_adds # <<>>
                   THEN pending_web_adds ELSE exported
    /\ pc' = "menu"
    /\ outcome' = "completed"
    /\ evs' = ev \cup {"complete"}
    /\ LocalsGone

Finish ==
    /\ pc = "finish"
    /\ UNCHANGED aux
    /\ IF dst = "spotify" /\ to_add_sp_uris # <<>>
       THEN /\ pc' = "sp_add"
            /\ off' = 0
            /\ evs' = {"batch_start"}
            /\ UNCHANGED <<dst, n, i, vid, to_add_sp_uris, tried, hitAt, outcome,
                           exported>>
       ELSE Complete({})
    /\ UNCHANGED <<runs, promptCount, planPromptCount, insertLog, quotaSeen>>
    /\ UNCHANGED globals

\* add_spotify_tracks: retry_call(sp.playlist_add_items) on one batch; no handler
SpAdd(out) ==
    /\ pc = "sp_add"
    /\ UNCHANGED aux
    /\ out \in SPOutcomes
    /\ LET batch == SubSeq(to_add_sp_uris, off + 1,
                           Min(off + SPOTIFY_ADD_BATCH, Len(to_add_sp_uris))) IN
       IF retry_call(out) = "return"
       THEN /\ insertLog' = Inserted(insertLog, "spotify", batch)
            /\ IF off + SPOTIFY_ADD_BATCH < Len(to_add_sp_uris)
               THEN /\ off' = off + SPOTIFY_ADD_BATCH
                    /\ evs' = {"insert_req", "insert_ok"}
                    /\ UNCHANGED <<pc, dst, n, i, vid, to_add_sp_uris, tried, hitAt,
                                   outcome, exported>>
               ELSE Complete({"insert_req", "insert_ok"})
       ELSE /\ Abort({"insert_req"})
            /\ UNCHANGED <<insertLog, exported>>
    /\ UNCHANGED <<runs, promptCount, planPromptCount, quotaSeen>>
    /\ UNCHANGED globals

Next ==
    \/ \E s \in Services, d \in Services : StartRun(s, d)
    \/ Interrupt
    \/ \E out \in YTOutcomes \cup SPOutcomes : LoadSource(out)
    \/ \E out \in YTOutcomes \cup SPOutcomes, m \in 0..MaxItems,
          cont \in BOOLEAN : LoadDest(out, m, cont)
    \/ YtCacheLookup
    \/ \E out \in YTOutcomes, res \in IdOrNone, opt \in 1..3 :
          YtSearch(out, res, opt)
    \/ \E nres \in 0..MaxResults, score \in Scores, idx \in 0..WEB_SHOWN,
          best \in IdOrNone, sel \in IdOrNone :
          WebFallback(nres, score, idx, best, sel)
    \/ \E inp \in IdOrNone : ManualEntry(inp)
    \/ Step3
    \/ \E out \in YTOutcomes, yes \in BOOLEAN : YtInsert(out, yes)
    \/ SpCacheLookup
    \/ \E out \in SPOutcomes, res \in IdOrNone : SpSearch(out, res)
    \/ \E inp \in IdOrNone : SpManual(inp)
    \/ Finish
    \/ \E out \in SPOutcomes : SpAdd(out)

Spec == Init /\ [][Next]_vars

\* ---------- retry_call, attempt by attempt ----------
RetryCap == RETRY_MAX_TRIES + 2

RetryFrame == UNCHANGED <<pc, runs, dst, n, i, vid, off, PLAN_MODE_ONLY,
                          pending_web_adds, added_video_ids, cache, to_add_sp_uris,
                          evs, tried, hitAt, promptCount, planPromptCount, insertLog,
                          quotaSeen, outcome, exported>>

\* retry_call(func) is entered: tries = 0
RetryEnter ==
    /\ rpc = "idle"
    /\ rpc' = "calling" /\ rtries' = 0 /\ routs' = <<>>
    /\ UNCHANGED <<STATE_, fphase, farg, fres>>
    /\ RetryFrame

\* one pass of `while True`: tries += 1, func() ends with a
RetryAttempt(a) ==
    /\ rpc = "calling"
    /\ rtries < RetryCap
    /\ rtries' = rtries + 1
    /\ routs' = Append(routs, a)
    /\ STATE_' = RetryState(STATE_, Classify(a))
    /\ rpc' = CASE RetryDecision(Classify(a), rtries + 1) = "return" -> "returned"
                [] RetryDecision(Classify(a), rtries + 1) = "retry" -> "calling"
                [] OTHER -> "raised"
    /\ UNCHANGED <<fphase, farg, fres>>
    /\ RetryFrame

NextRetry ==
    \/ RetryEnter
    \/ \E a \in Attempts : RetryAttempt(a)

SpecRetry == Init /\ [][NextRetry]_vars /\ WF_vars(NextRetry)

\* ---------- clean_title ----------
\* A title is a sequence of symbols: "w" an ordinary word, "q" a word of
\* REMIX_PAT (remix, edit, ...), "Q" the same in upper case, "o" a word of the
\* bracket pattern (official, video, ...), and the characters " ", "_", "-",
\* "(" and ")".  Two word symbols side by side are one longer word.
Sym == {"w", "q", "Q", "o", " ", "_", "-", "(", ")"}

Titles == UNION {[1..k -> Sym] : k \in 0..MaxTitleLen}

\* \w of the regular expressions
WordChar(c) == c \in {"w", "q", "Q", "o", "_"}

\* NFKD, ascii, lower()
Lower(s) == [k \in 1..Len(s) |-> IF s[k] = "Q" THEN "q" ELSE s[k]]

\* \b(remix|...)\b matches the symbol at k
IsQualifier(s, k) ==
    /\ s[k] = "q"
    /\ (k = 1 \/ ~WordChar(s[k - 1]))
    /\ (k = Len(s) \/ ~WordChar(s[k + 1]))

\* the end of the bracket group opening at p that the first re.sub removes, or 0
NoiseGroupEnd(s, p) ==
    IF s[p] # "(" \/ ~(\E e \in (p + 1)..Len(s) : s[e] = ")") THEN 0
    ELSE LET e == CHOOSE e \in (p + 1)..Len(s) :
                      s[e] = ")" /\ \A k \in (p + 1)..(e - 1) : s[k] # ")"
         IN  IF \E k \in (p + 1)..(e - 1) : s[k] = "o" THEN e ELSE 0

RECURSIVE DropNoiseFrom(_, _)
DropNoiseFrom(s, p) ==
    IF p > Len(s) THEN <<>>
    ELSE IF NoiseGroupEnd(s, p) # 0
         THEN <<" ">> \o DropNoiseFrom(s, NoiseGroupEnd(s, p) + 1)
         ELSE <<s[p]>> \o DropNoiseFrom(s, p + 1)

\* re.sub(r"[\(\[][^)\]]*(official|...)[^)\]]*[\)\]]", " ", s2)
DropNoise(s) == DropNoiseFrom(s, 1)

\* r"\s*[-]\s*\b(remix|...)\b.*$" matches with its hyphen at p
SuffixAt(s, p) ==
    /\ s[p] = "-"
    /\ \E j \in (p + 1)..Len(s) :
          /\ \A k \in (p + 1)..(j - 1) : s[k] = " "
          /\ IsQualifier(s, j)

\* re.sub(r"\s*[-]\s*" + REMIX_PAT.pattern + r".*$", " ", s2)
DropSuffix(s) ==
    IF ~(\E p \in 1..Len(s) : SuffixAt(s, p)) THEN s
    ELSE LET p == CHOOSE p \in 1..Len(s) :
                      SuffixAt(s, p) /\ \A r \in 1..(p - 1) : ~SuffixAt(s, r)
             b == CHOOSE b \in 1..p :
                      /\ \A k \in b..(p - 1) : s[k] = " "
                      /\ (b = 1 \/ s[b - 1] # " ")
         IN  SubSeq(s, 1, b - 1) \o <<" ">>

\* REMIX_PAT.sub(" ", s2)
DropQualifiers(s) == [k \in 1..Len(s) |-> IF IsQualifier(s, k) THEN " " ELSE s[k]]

\* re.sub(r"[\|\-_]+", " ", s2), up to the number of blanks
Separators(s) == [k \in 1..Len(s) |-> IF s[k] \in {"-", "_"} THEN " " ELSE s[k]]

RECURSIVE CollapseFrom(_, _)
CollapseFrom(s, p) ==
    IF p > Len(s) THEN <<>>
    ELSE IF s[p] = " " /\ p > 1 /\ s[p - 1] = " " THEN CollapseFrom(s, p + 1)
    ELSE <<s[p]>> \o CollapseFrom(s, p + 1)

\* re.sub(r"\s+", " ", s2)
Collapse(s) == CollapseFrom(s, 1)

\* str.strip() of a string without two blanks in a row
Strip(s) ==
    LET a == IF Len(s) > 0 /\ s[1] = " " THEN 2 ELSE 1
        b == IF Len(s) > 0 /\ s[Len(s)] = " " THEN Len(s) - 1 ELSE Len(s)
    IN  SubSeq(s, a, b)

clean_title(s) ==
    Strip(Collapse(Separators(DropQualifiers(DropSuffix(DropNoise(Lower(s)))))))

\* ---------- clean_title applied to a title ----------
FnFrame == UNCHANGED <<pc, runs, dst, n, i, vid, off, STATE_, PLAN_MODE_ONLY,
                       pending_web_adds, added_video_ids, cache, to_add_sp_uris,
                       evs, tried, hitAt, promptCount, planPromptCount, insertLog,
                       quotaSeen, outcome, exported, rpc, rtries, routs>>

TitleGiven(t) ==
    /\ fphase = "idle"
    /\ fphase' = "input" /\ farg' = t /\ fres' = <<>>
    /\ FnFrame

TitleCleaned ==
    /\ fphase = "input"
    /\ fphase' = "done" /\ fres' = clean_title(farg)
    /\ UNCHANGED farg
    /\ FnFrame

NextTitle ==
    \/ \E t \in Titles : TitleGiven(t)
    \/ TitleCleaned

SpecTitle == Init /\ [][NextTitle]_vars

\* ---------- clean_artists, key_loose, key_title_only ----------
\* An artist credit is a sequence of words: the names "a", "A" (the same in
\* upper case), "bb", "cc", "ddd", and "f", a word of FEAT_PAT (feat, ft, ...).
ArtistWords == {"a", "A", "bb", "cc", "ddd", "f"}

\* lower() of one word
LowerWord(x) == IF x = "A" THEN "a" ELSE x

\* FEAT_PAT.split(a2)[0]: the words before the first word of FEAT_PAT
BeforeFeat(c) ==
    IF ~(\E k \in 1..Len(c) : c[k] = "f") THEN c
    ELSE LET k == CHOOSE k \in 1..Len(c) :
                      c[k] = "f" /\ \A j \in 1..(k - 1) : c[j] # "f"
         IN  SubSeq(c, 1, k - 1)

\* len(x)
WordLen(x) ==
    CASE x \in {"a", "A", "f"} -> 1 [] x \in {"bb", "cc"} -> 2 [] x = "ddd" -> 3
      [] x = "w::a" -> 4

\* the place of a word in Python's string order
WordRank(x) ==
    CASE x = "A" -> 1 [] x = "a" -> 2 [] x = "bb" -> 3 [] x = "cc" -> 4
      [] x = "ddd" -> 5 [] x = "f" -> 6 [] x = "w::a" -> 7

\* variant: the key is the word alone
KeyLess_Lexical(x, y) == WordRank(x) < WordRank(y)

\* (-len(x), x) < (-len(y), y)
KeyLess(x, y) ==
    \/ WordLen(x) > WordLen(y)
    \/ WordLen(x) = WordLen(y) /\ WordRank(x) < WordRank(y)

\* sorted(set(out), key=lambda x: (-len(x), x))
RECURSIVE SortedByKey(_)
SortedByKey(S) ==
    IF S = {} THEN <<>>
    ELSE LET m == CHOOSE x \in S : \A y \in S \ {x} : KeyLess(x, y)
         IN  <<m>> \o SortedByKey(S \ {m})

clean_artists(artists) ==
    LET words == UNION {{LowerWord(x) : x \in Range(BeforeFeat(c))} : c \in Range(artists)}
        sorted == SortedByKey(words)
    IN  SubSeq(sorted, 1, Min(2, Len(sorted)))

\* the characters of a word of an artist credit, in the symbols of a title;
\* "w::a" is the name made of the word "w", two colons and "a"
WordSyms(x) == IF x = "w::a" THEN <<"w", ":", ":", "a">> ELSE <<x>>

\* " ".join(tokens) for the at most two tokens of clean_artists
JoinTokens(tokens) ==
    IF Len(tokens) = 0 THEN <<>>
    ELSE IF Len(tokens) = 1 THEN WordSyms(tokens[1])
    ELSE WordSyms(tokens[1]) \o <<" ">> \o WordSyms(tokens[2])

\* f"{t}::{a}": one string
key_loose(name, artists) ==
    clean_title(name) \o <<":", ":">> \o JoinTokens(clean_artists(artists))

key_title_only(name) == clean_title(name)

\* ---------- clean_artists applied to an artist list ----------
\* the credits of at most two words; the empty credit is the empty string
Credits == UNION {[1..k -> ArtistWords] : k \in 0..2}

CreditLists == UNION {[1..k -> Credits] : k \in 0..MaxArtists}

ArtistsGiven(artists) ==
    /\ fphase = "idle"
    /\ fphase' = "artists" /\ farg' = artists /\ fres' = <<>>
    /\ FnFrame

ArtistsCleaned ==
    /\ fphase = "artists"
    /\ fphase' = "signature" /\ fres' = clean_artists(farg)
    /\ UNCHANGED farg
    /\ FnFrame

NextArtists ==
    \/ \E artists \in CreditLists : ArtistsGiven(artists)
    \/ ArtistsCleaned

SpecArtists == Init /\ [][NextArtists]_vars

\* ---------- key_loose and key_title_only of two tracks ----------
\* "Song", "Song::Song", "Song (Official)", "Song_REMIX" by nobody, ["a"],
\* ["bb"], ["Song::a"] or ["a", "bb"]
KeyPool ==
    [name    : { <<"w">>, <<"w", ":", ":", "w">>, <<"w", " ", "(", "o", ")">>,
                 <<"w", "_", "Q">> },
     artists : { <<>>, << <<"a">> >>, << <<"bb">> >>, << <<"w::a">> >>,
                 << <<"a">>, <<"bb">> >> }]

TracksPaired(s, t) ==
    /\ fphase = "idle"
    /\ fphase' = "paired" /\ farg' = <<s, t>> /\ fres' = <<>>
    /\ FnFrame

KeysTaken ==
    /\ fphase = "paired"
    /\ fphase' = "keyed"
    /\ fres' = [p \in 1..2 |->
                  [loose   |-> key_loose(farg[p].name, farg[p].artists),
                   title   |-> key_title_only(farg[p].name),
                   artists |-> clean_artists(farg[p].artists)]]
    /\ UNCHANGED farg
    /\ FnFrame

NextKeys ==
    \/ \E s \in KeyPool, t \in KeyPool : TracksPaired(s, t)
    \/ KeysTaken

SpecKeys == Init /\ [][NextKeys]_vars

\* ---------- deduplicate_tracks ----------
\* one round of the loop: st holds seen, seen_title and out
\* variant: a kept track goes to the front of out
DedupStep_Prepend(st, t) ==
    LET k  == key_loose(t.name, t.artists)
        kt == key_title_only(t.name)
    IN  IF k \in st.seen \/ kt \in st.seen_title THEN st
        ELSE [seen       |-> st.seen \cup {k},
              seen_title |-> st.seen_title \cup {kt},
              out        |-> <<t>> \o st.out]

\* variant: only the loose key decides
DedupStep_LooseOnly(st, t) ==
    LET k  == key_loose(t.name, t.artists)
        kt == key_title_only(t.name)
    IN  IF k \in st.seen THEN st
        ELSE [seen       |-> st.seen \cup {k},
              seen_title |-> st.seen_title \cup {kt},
              out        |-> Append(st.out, t)]

DedupStep(st, t) ==
    LET k  == key_loose(t.name, t.artists)
        kt == key_title_only(t.name)
    IN  IF k \in st.seen \/ kt \in st.seen_title THEN st
        ELSE [seen       |-> st.seen \cup {k},
              seen_title |-> st.seen_title \cup {kt},
              out        |-> Append(st.out, t)]

RECURSIVE DedupLoop(_, _, _)
DedupLoop(tracks, p, st) ==
    IF p > Len(tracks) THEN st
    ELSE DedupLoop(tracks, p + 1, DedupStep(st, tracks[p]))

deduplicate_tracks(tracks) ==
    DedupLoop(tracks, 1, [seen |-> {}, seen_title |-> {}, out |-> <<>>]).out

\* ---------- deduplicate_tracks applied to a list ----------
\* "Song", "Song (Official Video)", "Song - Radio Edit", "Song_Remix"
TrackNames == { <<"w">>,
                <<"w", " ", "(", "o", ")">>,
                <<"w", " ", "-", " ", "Q">>,
                <<"w", "_", "Q">> }

\* ["a"], ["A feat bb"], ["bb"]
ArtistLists == { << <<"a">> >>, << <<"A", "f", "bb">> >>, << <<"bb">> >> }

TrackPool == [name : TrackNames, artists : ArtistLists]

TrackLists(len) == UNION {[1..k -> TrackPool] : k \in 0..len}

TracksGiven(ts) ==
    /\ fphase = "idle"
    /\ fphase' = "tracks" /\ farg' = ts /\ fres' = <<>>
    /\ FnFrame

Deduplicated ==
    /\ fphase = "tracks"
    /\ fphase' = "deduped" /\ fres' = deduplicate_tracks(farg)
    /\ UNCHANGED farg
    /\ FnFrame

NextDedupe ==
    \/ \E ts \in TrackLists(MaxTracks) : TracksGiven(ts)
    \/ Deduplicated

SpecDedupe == Init /\ [][NextDedupe]_vars

\* ---------- reconciliation: main, the two loads and the difference ----------
\* d[k] = t of a dict kept as the sequence of its items in insertion order
DictPut(d, k, t) ==
    IF \E p \in 1..Len(d) : d[p][1] = k
    THEN [p \in 1..Len(d) |-> IF d[p][1] = k THEN <<k, t>> ELSE d[p]]
    ELSE Append(d, <<k, t>>)

RECURSIVE SrcMapFrom(_, _, _)
SrcMapFrom(tracks, p, d) ==
    IF p > Len(tracks) THEN d
    ELSE SrcMapFrom(tracks, p + 1,
                    DictPut(d, key_loose(tracks[p].name, tracks[p].artists), tracks[p]))

src_map(src_tracks) == SrcMapFrom(src_tracks, 1, <<>>)

dst_keyset(dst_tracks) == {key_loose(t.name, t.artists) : t \in Range(dst_tracks)}

dst_titles(dst_tracks) == {key_title_only(t.name) : t \in Range(dst_tracks)}

\* variant: only the loose key decides
AlreadyThere_LooseOnly(k, t, dst_tracks) ==
    k \in dst_keyset(dst_tracks)

\* the condition under which the loop skips an item of src_map
AlreadyThere(k, t, dst_tracks) ==
    k \in dst_keyset(dst_tracks) \/ key_title_only(t.name) \in dst_titles(dst_tracks)

RECURSIVE ToAddFrom(_, _, _, _)
ToAddFrom(items, p, dst_tracks, out) ==
    IF p > Len(items) THEN out
    ELSE ToAddFrom(items, p + 1, dst_tracks,
                   IF AlreadyThere(items[p][1], items[p][2], dst_tracks) THEN out
                   ELSE Append(out, items[p][2]))

to_add(src_tracks, dst_tracks) == ToAddFrom(src_map(src_tracks), 1, dst_tracks, <<>>)

\* variant: every source track that is not missing is counted
already_AllPresent(src_tracks, dst_tracks) ==
    Len(src_tracks) - Len(to_add(src_tracks, dst_tracks))

\* len(src_map.keys() & dst_keyset)
already(src_tracks, dst_tracks) ==
    Cardinality({it[1] : it \in Range(src_map(src_tracks))} \cap dst_keyset(dst_tracks))

\* "Song", "Song (Official Video)", "Song_Remix" by ["a"] or by ["bb"]
PlaylistPool ==
    [name    : { <<"w">>, <<"w", " ", "(", "o", ")">>, <<"w", "_", "Q">> },
     artists : { << <<"a">> >>, << <<"bb">> >> }]

PlaylistsOf(len) == UNION {[1..k -> PlaylistPool] : k \in 0..len}

\* both playlists are read and deduplicated
ListsLoaded(s, d) ==
    /\ fphase = "idle"
    /\ fphase' = "loaded"
    /\ farg' = [source |-> s, destination |-> d,
                src_tracks |-> deduplicate_tracks(s),
                dst_tracks |-> deduplicate_tracks(d)]
    /\ fres' = <<>>
    /\ FnFrame

Reconciled ==
    /\ fphase = "loaded"
    /\ fphase' = "reconciled"
    /\ fres' = [already |-> already(farg.src_tracks, farg.dst_tracks),
                to_add  |-> to_add(farg.src_tracks, farg.dst_tracks)]
    /\ UNCHANGED farg
    /\ FnFrame

NextReconcile ==
    \/ \E s \in PlaylistsOf(MaxSrcTracks), d \in PlaylistsOf(MaxDstTracks) : ListsLoaded(s, d)
    \/ Reconciled

SpecReconcile == Init /\ [][NextReconcile]_vars

\* ---------- main with a YouTube destination: the destination read and the loop ----------
\* the destination playlists read in this part: empty or one track
DestLists == PlaylistsOf(1)

\* the locals and globals of main after the source is read, first run of a process
RunStart(src_tracks) ==
    [src_tracks |-> src_tracks, to_add |-> <<>>, already |-> 0, i |-> 0,
     STATE_ |-> [yt_search_disabled |-> FALSE, prompted_after_quota |-> FALSE,
                 continue_manual_after_quota |-> FALSE,
                 continue_web_auto_after_quota |-> FALSE],
     PLAN_MODE_ONLY |-> FALSE, calls |-> {}]

\* variant: the resolved identifier is inserted in planning mode too
InsertAllowed_Always(plan) == TRUE

\* "if PLAN_MODE_ONLY: ... else: add_youtube_videos(...)"
InsertAllowed(plan) == ~plan

\* the source playlist is read and deduplicated
SourceRead(s) ==
    /\ fphase = "idle"
    /\ fphase' = "source_read"
    /\ farg' = <<>>
    /\ fres' = RunStart(deduplicate_tracks(s))
    /\ FnFrame

\* the difference of the source and the destination tracks dst_tracks
Difference(st, dst_tracks) ==
    [st EXCEPT !.to_add = to_add(st.src_tracks, dst_tracks),
               !.already = already(st.src_tracks, dst_tracks),
               !.i = 1]

\* the destination read ends with outcome out; cont answers the planning question
DestRead(d, out, cont) ==
    /\ fphase = "source_read"
    /\ farg' = [out |-> out, cont |-> cont]
    /\ LET st == [fres EXCEPT !.STATE_ = RetryState(@, out)]
           looping(r) == IF r.to_add = <<>> THEN "finished" ELSE "loop"
       IN  CASE retry_call(out) = "return" ->
                  LET r == Difference(st, deduplicate_tracks(d))
                  IN  fres' = r /\ fphase' = looping(r)
             [] retry_call(out) = "raise" /\ Raised(out) = "HttpError"
                    /\ is_quota_exceeded_http_error(out) ->
                  IF cont
                  THEN LET r == Difference(
                                   [st EXCEPT !.STATE_.yt_search_disabled = TRUE,
                                              !.STATE_.continue_web_auto_after_quota = TRUE,
                                              !.PLAN_MODE_ONLY = TRUE],
                                   <<>>)
                       IN  fres' = r /\ fphase' = looping(r)
                  ELSE /\ fres' = [st EXCEPT !.STATE_.yt_search_disabled = TRUE]
                       /\ fphase' = "stopped"
             [] OTHER -> fres' = st /\ fphase' = "raised"
    /\ FnFrame

\* one round of the loop over to_add: hit is the cache lookup, sout the outcome
\* of the API search and found its result, opt the answer to the after-quota
\* prompt, web the identifier from the web or manual step, iout the outcome of
\* the insert and cont the answer to the planning question
ItemRound(hit, sout, found, opt, web, iout, cont) ==
    /\ fphase = "loop"
    /\ UNCHANGED farg
    /\ LET S0        == fres.STATE_
           plan0     == fres.PLAN_MODE_ONLY
           searched  == SearchAllowed(S0, plan0, hit)
           S1        == IF searched THEN RetryState(S0, sout) ELSE S0
           searchErr == searched /\ retry_call(sout) = "raise"
           httpErr   == searchErr /\ Raised(sout) = "HttpError"
           stopped1  == httpErr /\ SearchErrorStops(S1, opt)
           S2        == IF httpErr THEN SearchErrorState(S1, opt) ELSE S1
           v1        == IF searched /\ ~searchErr THEN found ELSE hit
           v2        == IF v1 = None THEN web ELSE v1
           early     == (searchErr /\ ~httpErr) \/ stopped1
           inserted  == ~early /\ v2 # None /\ InsertAllowed(plan0)
           S3        == IF inserted THEN RetryState(S2, iout) ELSE S2
           insErr    == inserted /\ retry_call(iout) = "raise"
           insQuota  == insErr /\ Raised(iout) = "HttpError"
                               /\ is_quota_exceeded_http_error(iout)
           plan1     == plan0 \/ (insQuota /\ cont)
           raised    == (searchErr /\ ~httpErr) \/ (insErr /\ Raised(iout) # "HttpError")
           stopped   == stopped1 \/ (insQuota /\ ~cont)
           calls     == fres.calls \cup (IF searched THEN {"search"} ELSE {})
                                   \cup (IF inserted THEN {"insert"} ELSE {})
       IN  /\ fres' = [fres EXCEPT !.STATE_ = S3, !.PLAN_MODE_ONLY = plan1,
                                   !.calls = calls,
                                   !.i = IF raised \/ stopped THEN @ ELSE @ + 1]
           /\ fphase' = IF raised THEN "raised"
                        ELSE IF stopped THEN "stopped"
                        ELSE IF fres.i + 1 > Len(fres.to_add) THEN "finished"
                        ELSE "loop"
    /\ FnFrame

NextPlanLoad ==
    \/ \E s \in PlaylistsOf(MaxSrcTracks) : SourceRead(s)
    \/ \E d \in DestLists, out \in YTOutcomes, cont \in BOOLEAN : DestRead(d, out, cont)
    \/ \E hit \in {None, 1}, sout \in YTOutcomes, found \in {None, 1}, opt \in 1..3,
          web \in {None, 1}, iout \in YTOutcomes, cont \in BOOLEAN :
           ItemRound(hit, sout, found, opt, web, iout, cont)

SpecPlanLoad == Init /\ [][NextPlanLoad]_vars

\* ---------- batch add on Spotify ----------
\* s[a:b] for 0 <= a <= b
PySlice(s, a, b) == SubSeq(s, a + 1, Min(b, Len(s)))

\* list(range(0, len, step))
PyRange(len, step) == [k \in 1..((len + step - 1) \div step) |-> (k - 1) * step]

\* variant: the slice ends one element early
BatchAt_Short(uris, start) == PySlice(uris, start, start + SPOTIFY_ADD_BATCH - 1)

\* uris[i : i + SPOTIFY_ADD_BATCH]
BatchAt(uris, start) == PySlice(uris, start, start + SPOTIFY_ADD_BATCH)

\* add_spotify_tracks(sp, playlist_id, uris): the arguments of its
\* playlist_add_items calls, in order
add_spotify_tracks(uris) ==
    LET starts == PyRange(Len(uris), SPOTIFY_ADD_BATCH)
    IN  [k \in 1..Len(starts) |-> BatchAt(uris, starts[k])]

\* SpotifyService.add_tracks(playlist_id, uris): the same, "if chunk"
add_tracks(uris) ==
    LET starts == PyRange(Len(uris), SPOTIFY_ADD_BATCH)
        chunks == [k \in 1..Len(starts) |-> BatchAt(uris, starts[k])]
        NotEmpty(c) == c # <<>>
    IN  SelectSeq(chunks, NotEmpty)

\* the resolved URIs, each standing for its place in to_add_sp_uris
UrisResolved(len, via) ==
    /\ fphase = "idle"
    /\ farg' = [uris |-> [k \in 1..len |-> k], via |-> via]
    /\ fres' = [calls |-> <<>>, round |-> 1]
    /\ fphase' = IF len = 0 THEN "added" ELSE "adding"
    /\ FnFrame

\* one round of "for i in range(0, len(to_add_sp_uris), SPOTIFY_ADD_BATCH)" of
\* main, or the whole of SpotifyService.add_tracks; ok: every call returned
BatchRound(ok) ==
    /\ fphase = "adding"
    /\ UNCHANGED farg
    /\ LET starts == PyRange(Len(farg.uris), SPOTIFY_ADD_BATCH)
           calls  == IF farg.via = "main"
                     THEN add_spotify_tracks(BatchAt(farg.uris, starts[fres.round]))
                     ELSE add_tracks(farg.uris)
           last   == farg.via # "main" \/ fres.round = Len(starts)
       IN  IF ok
           THEN /\ fres' = [calls |-> fres.calls \o calls, round |-> fres.round + 1]
                /\ fphase' = IF last THEN "added" ELSE "adding"
           ELSE /\ fres' = [fres EXCEPT !.calls = @ \o SubSeq(calls, 1, 1)]
                /\ fphase' = "raised"
    /\ FnFrame

NextBatches ==
    \/ \E len \in 0..MaxUris, via \in {"main", "service"} : UrisResolved(len, via)
    \/ \E ok \in BOOLEAN : BatchRound(ok)

SpecBatches == Init /\ [][NextBatches]_vars

\* ---------- PlaylistManager.add_tracks_interactive ----------
\* menu choice 2 on the playlist of adapter; found is the history of the
\* identifiers found, calls the payloads passed to add_identifiers
AddTracksChosen(adapter) ==
    /\ fphase \in {"idle", "menu"}
    /\ fphase' = "entering"
    /\ farg' = adapter
    /\ fres' = [payload |-> <<>>, found |-> <<>>, calls |-> <<>>, entries |-> 0,
                yt_search_disabled |-> IF fphase = "idle" THEN FALSE
                                       ELSE fres.yt_search_disabled]
    /\ FnFrame

\* adapter.search_identifier for one entry: the identifier or None, or raised
\* when the exception leaves search_identifier
search_identifier(adapter, disabled, out, res) ==
    LET returned(v) == [raised |-> FALSE, identifier |-> v]
        raised      == [raised |-> TRUE, identifier |-> None]
    IN  IF adapter = "youtube"
        THEN (IF disabled THEN returned(None)
              ELSE IF retry_call(out) = "return" THEN returned(res) ELSE raised)
        ELSE (IF retry_call(out) = "return" THEN returned(res)
              ELSE IF Raised(out) = "SpotifyException" THEN returned(None) ELSE raised)

\* a line that is not blank: out and res are the outcome and the result of the
\* service search, web the identifier from _resolve_youtube_via_web
EntryLine(out, res, web) ==
    /\ fphase = "entering"
    /\ fres.entries < MaxEntries
    /\ out \in OutcomesOf(farg)
    /\ UNCHANGED farg
    /\ LET searched   == ~(farg = "youtube" /\ fres.yt_search_disabled)
           S          == IF searched THEN RetryState(fres, out) ELSE fres
           first      == search_identifier(farg, fres.yt_search_disabled, out, res)
           identifier == IF first.identifier = None /\ farg = "youtube" THEN web
                         ELSE first.identifier
       IN  IF first.raised
           THEN \* the exception leaves add_tracks_interactive; payload is a local
                /\ fres' = [S EXCEPT !.payload = <<>>, !.entries = @ + 1]
                /\ fphase' = "menu"
           ELSE /\ fres' = IF identifier # None
                           THEN [S EXCEPT !.payload = Append(@, identifier),
                                          !.found = Append(@, identifier),
                                          !.entries = @ + 1]
                           ELSE [S EXCEPT !.entries = @ + 1]
                /\ fphase' = "entering"
    /\ FnFrame

\* the blank line that ends the input
BlankLine ==
    /\ fphase = "entering"
    /\ UNCHANGED farg
    /\ fres' = IF fres.payload # <<>>
               THEN [fres EXCEPT !.calls = Append(@, fres.payload), !.payload = <<>>]
               ELSE fres
    /\ fphase' = "menu"
    /\ FnFrame

NextInteractive ==
    \/ \E adapter \in Services : AddTracksChosen(adapter)
    \/ \E out \in YTOutcomes \cup SPOutcomes, res \in IdOrNone, web \in IdOrNone :
           EntryLine(out, res, web)
    \/ BlankLine

SpecInteractive == Init /\ [][NextInteractive]_vars

\* ---------- utils.clean_title ----------
\* r"\s*[-_]+\s*\b(remix|...)\b.*$" matches from position b on
utils_SuffixFrom(s, b) ==
    \E x \in b..Len(s), e \in b..Len(s), j \in (b + 1)..Len(s) :
        /\ x <= e /\ e < j
        /\ \A k \in b..(x - 1) : s[k] = " "
        /\ \A k \in x..e : s[k] \in {"-", "_"}
        /\ \A k \in (e + 1)..(j - 1) : s[k] = " "
        /\ IsQualifier(s, j)

\* re.sub(r"\s*[-_]+\s*" + REMIX_PAT.pattern + r".*$", " ", normalized)
utils_DropSuffix(s) ==
    IF ~(\E b \in 1..Len(s) : utils_SuffixFrom(s, b)) THEN s
    ELSE LET b == CHOOSE b \in 1..Len(s) :
                      utils_SuffixFrom(s, b) /\ \A r \in 1..(b - 1) : ~utils_SuffixFrom(s, r)
         IN  SubSeq(s, 1, b - 1) \o <<" ">>

utils_clean_title(s) ==
    Strip(Collapse(Separators(DropQualifiers(utils_DropSuffix(DropNoise(Lower(s)))))))

\* ---------- difflib.SequenceMatcher(None, a, b).ratio() ----------
\* length of the common run of a from i and b from j, inside a[..ahi], b[..bhi]
RECURSIVE RunLen(_, _, _, _, _, _)
RunLen(a, ai, ahi, b, bj, bhi) ==
    IF ai > ahi \/ bj > bhi \/ a[ai] # b[bj] THEN 0
    ELSE 1 + RunLen(a, ai + 1, ahi, b, bj + 1, bhi)

\* find_longest_match: the longest block, the earliest in a, then in b
find_longest_match(a, alo, ahi, b, blo, bhi) ==
    LET cand == {c \in (alo..ahi) \X (blo..bhi) : a[c[1]] = b[c[2]]}
    IN  IF cand = {} THEN <<alo, blo, 0>>
        ELSE LET best == CHOOSE c \in cand :
                     \A d \in cand :
                        LET kc == RunLen(a, c[1], ahi, b, c[2], bhi)
                            kd == RunLen(a, d[1], ahi, b, d[2], bhi)
                        IN  \/ kc > kd
                            \/ kc = kd /\ c[1] < d[1]
                            \/ kc = kd /\ c[1] = d[1] /\ c[2] <= d[2]
             IN  <<best[1], best[2], RunLen(a, best[1], ahi, b, best[2], bhi)>>

\* get_matching_blocks: the sum of the sizes of the blocks
RECURSIVE MatchedSize(_, _, _, _, _, _)
MatchedSize(a, alo, ahi, b, blo, bhi) ==
    IF alo > ahi \/ blo > bhi THEN 0
    ELSE LET m == find_longest_match(a, alo, ahi, b, blo, bhi)
         IN  IF m[3] = 0 THEN 0
             ELSE m[3] + MatchedSize(a, alo, m[1] - 1, b, blo, m[2] - 1)
                       + MatchedSize(a, m[1] + m[3], ahi, b, m[2] + m[3], bhi)

\* ratio() >= threshold, the threshold in hundredths; ratio() is 2.0 * matches /
\* length, and 1.0 when both strings are empty
RatioAtLeast(a, b, threshold) ==
    IF Len(a) + Len(b) = 0 THEN 100 >= threshold
    ELSE 200 * MatchedSize(a, 1, Len(a), b, 1, Len(b)) >= threshold * (Len(a) + Len(b))

\* ---------- PlaylistManager._detect_duplicates ----------
\* variant: two tracks without a common artist word are never similar
is_similar_NeedsOverlap(candidate, keeper, candidate_title, candidate_artists, threshold) ==
    LET keeper_title   == utils_clean_title(keeper.name)
        keeper_artists == Range(clean_artists(keeper.artists))
    IN  /\ RatioAtLeast(candidate_title, keeper_title, threshold)
        /\ candidate_artists \cap keeper_artists # {}

\* PlaylistManager._is_similar
is_similar(candidate, keeper, candidate_title, candidate_artists, threshold) ==
    LET keeper_title   == utils_clean_title(keeper.name)
        keeper_artists == Range(clean_artists(keeper.artists))
        artist_overlap == \/ candidate_artists \cap keeper_artists # {}
                          \/ keeper_artists = {}
                          \/ candidate_artists = {}
    IN  RatioAtLeast(candidate_title, keeper_title, threshold) /\ artist_overlap

\* one round of the loop: st holds kept and duplicates
DetectStep(st, track, threshold) ==
    LET normalized_title == utils_clean_title(track.name)
        artist_signature == Range(clean_artists(track.artists))
        found == \E p \in 1..Len(st.kept) :
                     is_similar(track, st.kept[p], normalized_title, artist_signature, threshold)
    IN  IF found THEN [st EXCEPT !.duplicates = Append(@, track)]
        ELSE [st EXCEPT !.kept = Append(@, track)]

RECURSIVE DetectLoop(_, _, _, _)
DetectLoop(tracks, p, threshold, st) ==
    IF p > Len(tracks) THEN st
    ELSE DetectLoop(tracks, p + 1, threshold, DetectStep(st, tracks[p], threshold))

detect_duplicates(tracks, threshold) ==
    DetectLoop(tracks, 1, threshold, [kept |-> <<>>, duplicates |-> <<>>]).duplicates

\* ---------- _detect_duplicates applied to a playlist ----------
\* titles of three, two and one letters, and the second with "(Official)"
DetectNames == { <<"w", "w", "o">>, <<"w", "o">>, <<"o">>,
                 <<"w", "o", " ", "(", "o", ")">> }

\* no artist, ["a"], ["bb"]
DetectArtists == { <<>>, << <<"a">> >>, << <<"bb">> >> }

\* a playlist: every entry has its own playlist_item_id
PlaylistEntries(len) ==
    UNION {{[p \in 1..k |-> [name |-> f[p][1], artists |-> f[p][2], playlist_item_id |-> p]] :
               f \in [1..k -> DetectNames \X DetectArtists]} : k \in 0..len}

\* remove_duplicates(playlist_id, threshold=0.9), in hundredths
Thresholds == {60, 90}

TracksListed(ts, threshold) ==
    /\ fphase = "idle"
    /\ fphase' = "listed" /\ farg' = [tracks |-> ts, threshold |-> threshold]
    /\ fres' = <<>>
    /\ FnFrame

Detected ==
    /\ fphase = "listed"
    /\ fphase' = "detected" /\ fres' = detect_duplicates(farg.tracks, farg.threshold)
    /\ UNCHANGED farg
    /\ FnFrame

NextDetect ==
    \/ \E ts \in PlaylistEntries(MaxTracks), threshold \in Thresholds : TracksListed(ts, threshold)
    \/ Detected

SpecDetect == Init /\ [][NextDetect]_vars

\* ---------- PlaylistManager.remove_duplicates ----------
\* the tracks of the service: "u1" and "u2" are two releases of one song,
\* "u3" is another song
ServiceTracks ==
    { [uri |-> "u1", name |-> <<"w", "o">>, artists |-> << <<"a">> >>],
      [uri |-> "u2", name |-> <<"w", "o", " ", "(", "o", ")">>, artists |-> << <<"a">> >>],
      [uri |-> "u3", name |-> <<"o">>, artists |-> << <<"bb">> >>] }

\* adapter.get_tracks: the entries of a playlist, each a track of the service
\* at its own place in the playlist (playlist_item_id stands for the place)
PlaylistsListed(len) ==
    UNION {{[p \in 1..k |-> [uri |-> f[p].uri, name |-> f[p].name, artists |-> f[p].artists,
                             playlist_item_id |-> p]] :
               f \in [1..k -> ServiceTracks]} : k \in 0..len}

Adapters == {"spotify", "youtube"}

\* SpotifyAdapter.remove_tracks: playlist_remove_all_occurrences_of_items(uris)
spotify_remove_tracks(playlist, tracks) ==
    LET uris == {t.uri : t \in Range(tracks)}
        Stays(e) == e.uri \notin uris
    IN  SelectSeq(playlist, Stays)

\* YouTubeAdapter.remove_tracks: playlistItems().delete(id) for each entry
youtube_remove_tracks(playlist, tracks) ==
    LET playlist_items == {t.playlist_item_id : t \in Range(tracks)}
        Stays(e) == e.playlist_item_id \notin playlist_items
    IN  SelectSeq(playlist, Stays)

\* remove_duplicates(playlist_id) with the default threshold 0.9
remove_duplicates(adapter, playlist) ==
    LET duplicates == detect_duplicates(playlist, 90)
    IN  IF playlist = <<>> \/ duplicates = <<>> THEN playlist
        ELSE IF adapter = "spotify" THEN spotify_remove_tracks(playlist, duplicates)
        ELSE youtube_remove_tracks(playlist, duplicates)

PlaylistChosen(adapter, playlist) ==
    /\ fphase = "idle"
    /\ fphase' = "managing" /\ farg' = [adapter |-> adapter, tracks |-> playlist]
    /\ fres' = <<>>
    /\ FnFrame

DuplicatesRemoved ==
    /\ fphase = "managing"
    /\ fphase' = "removed" /\ fres' = remove_duplicates(farg.adapter, farg.tracks)
    /\ UNCHANGED farg
    /\ FnFrame

NextRemove ==
    \/ \E adapter \in Adapters, playlist \in PlaylistsListed(MaxTracks) :
           PlaylistChosen(adapter, playlist)
    \/ DuplicatesRemoved

SpecRemove == Init /\ [][NextRemove]_vars

\* ---------- YouTubeService.add_videos ----------
\* the playlists of the account that the management menu can select
PlaylistIds == {"PL_A", "PL_B"}

\* the identifier lists a caller can pass; None stands for an empty identifier
VideoIdLists == UNION {[1..k -> IdOrNone] : k \in 0..MaxGiven}

\* state.STATE.added_video_ids and the playlists at the start of the process
ProcessStart ==
    [added_video_ids |-> {}, playlists |-> [p \in PlaylistIds |-> <<>>],
     calls |-> 0, returned |-> TRUE]

\* one round of the loop of add_videos whose insert call succeeds
AddOne(st, playlist_id, video_id) ==
    IF video_id = None THEN st
    ELSE IF video_id \in st.added_video_ids THEN st
    ELSE [st EXCEPT !.playlists[playlist_id] = Append(@, video_id),
                    !.added_video_ids = @ \cup {video_id}]

\* add_videos; the insert call of round failAt, if one is made, raises
RECURSIVE add_videos(_, _, _, _, _)
add_videos(st, playlist_id, video_ids, p, failAt) ==
    IF p > Len(video_ids) THEN [st EXCEPT !.returned = TRUE]
    ELSE LET after == AddOne(st, playlist_id, video_ids[p])
         IN  IF after # st /\ p = failAt THEN [st EXCEPT !.returned = FALSE]
             ELSE add_videos(after, playlist_id, video_ids, p + 1, failAt)

ProcessState == IF fphase = "idle" THEN ProcessStart ELSE fres

\* adapter.add_identifiers(playlist_id, payload) from add_tracks_interactive
AddIdentifiers(playlist_id, video_ids, failAt) ==
    /\ fphase \in {"idle", "added"}
    /\ ProcessState.calls < MaxCalls
    /\ fphase' = "added"
    /\ farg' = [playlist_id |-> playlist_id, video_ids |-> video_ids]
    /\ fres' = [add_videos(ProcessState, playlist_id, video_ids, 1, failAt)
                  EXCEPT !.calls = @ + 1]
    /\ FnFrame

NextAddVideos ==
    \E playlist_id \in PlaylistIds, video_ids \in VideoIdLists, failAt \in 0..MaxGiven :
        AddIdentifiers(playlist_id, video_ids, failAt)

SpecAddVideos == Init /\ [][NextAddVideos]_vars

\* ---------- token_set ----------
\* A text is a sequence of symbols: the words "song", "SONG" (upper case),
\* "live", "the", "remix", "featuring", "video", and the characters " " and "(".
\* Word symbols side by side are one longer word, e.g. "video" "song".
TextSym == {"song", "SONG", "live", "the", "remix", "featuring", "video", " ", "("}

Texts == UNION {[1..k -> TextSym] : k \in 0..MaxTextLen}

\* NFKD, ascii, lower()
LowerText(s) == [k \in 1..Len(s) |-> IF s[k] = "SONG" THEN "song" ELSE s[k]]

\* re.sub(r"[^a-z0-9 ]+", " ", s) / ch if ch.isalnum() else " "
Alnum(c) == c \notin {" ", "("}

\* s.split(): the maximal spans of word symbols, each run one word
SplitWords(s) ==
    LET spans == {ab \in (1..Len(s)) \X (1..Len(s)) :
                    /\ ab[1] <= ab[2]
                    /\ \A k \in ab[1]..ab[2] : Alnum(s[k])
                    /\ ab[1] = 1 \/ ~Alnum(s[ab[1] - 1])
                    /\ ab[2] = Len(s) \/ ~Alnum(s[ab[2] + 1])}
    IN  {SubSeq(s, ab[1], ab[2]) : ab \in spans}

\* the set `stop` of legacy_sync.token_set
stop == {"the", "a", "an", "official", "video", "audio", "lyrics", "lyric", "remix",
         "edit", "radio", "version", "feat", "ft", "con", "with"}

\* legacy_sync.token_set
token_set(s) ==
    {w \in SplitWords(LowerText(s)) : ~(Len(w) = 1 /\ w[1] \in stop)}

\* the set `stop_words` of websearch.token_set
stop_words == {"the", "a", "an", "feat", "featuring", "official", "video", "audio",
               "ft", "con", "with"}

\* .replace("video", " ").replace("audio", " ")
BlankVideo(s) == [k \in 1..Len(s) |-> IF s[k] = "video" THEN " " ELSE s[k]]

\* websearch.token_set; replacing "(official)" by a blank changes nothing that
\* the blanking of "(" and ")" and the stop word "official" do not already do
websearch_token_set(s) ==
    {w \in SplitWords(BlankVideo(LowerText(s))) : ~(Len(w) = 1 /\ w[1] \in stop_words)}

\* ---------- token_set applied to a text ----------
TextGiven(t) ==
    /\ fphase = "idle"
    /\ fphase' = "text" /\ farg' = t /\ fres' = <<>>
    /\ FnFrame

Tokenized ==
    /\ fphase = "text"
    /\ fphase' = "tokens"
    /\ fres' = [legacy_sync |-> token_set(farg), websearch |-> websearch_token_set(farg)]
    /\ UNCHANGED farg
    /\ FnFrame

NextTokens ==
    \/ \E t \in Texts : TextGiven(t)
    \/ Tokenized

SpecTokens == Init /\ [][NextTokens]_vars

\* ---------- jaccard, pick_best_web_result on concrete results ----------
\* a fraction num / den, den > 0
Frac(num, den) == [num |-> num, den |-> den]

FracLeq(x, y) == x.num * y.den <= y.num * x.den

\* jaccard: 0.0 when a set is empty, else len(a & b) / len(a | b)
jaccard(a, b) ==
    IF a = {} \/ b = {} THEN Frac(0, 1)
    ELSE Frac(Cardinality(a \cap b), Cardinality(a \cup b))

\* a cleaned result URL: ".../watch?v=<id>" or ".../playlist?list=<id>"
Urls == [path : {"watch", "playlist"}, id : Ids]

\* the URLs in the order of Python's string comparison ("playlist" < "watch")
UrlRank(u) == (IF u.path = "watch" THEN NumIds ELSE 0) + u.id

\* parse_youtube_video_id of a cleaned result URL: the value of "v", if any
parse_youtube_video_id(u) == IF u.path = "watch" THEN u.id ELSE None

\* want = token_set(track_title) | set(clean_artists(artists))
WantTokens(track_title, artists) ==
    token_set(track_title) \cup {<<x>> : x \in Range(clean_artists(artists))}

\* variant: the penalty for a playlist is 0.16
ScoreOf_Penalty16(r, track_title, artists) ==
    LET got == token_set(r.t)
        j == jaccard(WantTokens(track_title, artists), got)
        title_tokens == token_set(track_title)
        bonus == IF title_tokens # {} /\ title_tokens \subseteq got THEN 15 ELSE 0
        penalty == IF r.u.path = "playlist" THEN 16 ELSE 0
    IN  Frac(100 * j.num + (bonus - penalty) * j.den, 100 * j.den)

\* the body of the scoring loop: the score of the result r = (u, t)
ScoreOf(r, track_title, artists) ==
    LET got == token_set(r.t)
        j == jaccard(WantTokens(track_title, artists), got)
        title_tokens == token_set(track_title)
        bonus == IF title_tokens # {} /\ title_tokens \subseteq got THEN 15 ELSE 0
        penalty == IF r.u.path = "playlist" THEN 8 ELSE 0
    IN  Frac(100 * j.num + (bonus - penalty) * j.den, 100 * j.den)

\* scored, in the order of results
Scored(results, track_title, artists) ==
    [k \in 1..Len(results) |->
        [score |-> ScoreOf(results[k], track_title, artists),
         u |-> results[k].u, t |-> results[k].t]]

\* (score, u, t) of x is greater than that of y; the URLs of a result list differ
TupleGreater(x, y) ==
    \/ ~FracLeq(x.score, y.score)
    \/ FracLeq(y.score, x.score) /\ UrlRank(x.u) > UrlRank(y.u)

\* scored.sort(reverse=True); best = scored[0]
BestOf(scored) ==
    CHOOSE x \in Range(scored) : \A y \in Range(scored) \ {x} : TupleGreater(x, y)

\* best[0] >= 0.35
Accepted(x) == FracLeq(Frac(WEB_ACCEPT_SCORE, 100), x.score)

\* pick_best_web_result on the result list itself
pick_best_scored(results, track_title, artists) ==
    IF results = <<>> THEN None
    ELSE LET best == BestOf(Scored(results, track_title, artists))
         IN  IF Accepted(best) THEN parse_youtube_video_id(best.u) ELSE None

\* ---------- pick_best_web_result applied to a result list ----------
\* "SONG", "song (live", "live", "the"
ResultTitles == { <<"SONG">>, <<"song", " ", "(", "live">>, <<"live">>, <<"the">> }

\* "song", "the", "song live"
TargetTitles == { <<"song">>, <<"the">>, <<"song", " ", "live">> }

\* no artist, ["a"]
TargetArtists == { <<>>, << <<"a">> >> }

\* the result lists of google_music_search: no URL twice
ResultLists ==
    UNION {{rs \in [1..k -> [u : Urls, t : ResultTitles]] :
               \A p \in 1..k, q \in 1..k : p # q => rs[p].u # rs[q].u} : k \in 0..MaxResults}

ResultsGiven(rs, track_title, artists) ==
    /\ fphase = "idle"
    /\ fphase' = "results"
    /\ farg' = [results |-> rs, track_title |-> track_title, artists |-> artists]
    /\ fres' = <<>>
    /\ FnFrame

BestPicked ==
    /\ fphase = "results"
    /\ fphase' = "picked"
    /\ fres' = [scored |-> Scored(farg.results, farg.track_title, farg.artists),
                value  |-> pick_best_scored(farg.results, farg.track_title, farg.artists)]
    /\ UNCHANGED farg
    /\ FnFrame

NextPick ==
    \/ \E rs \in ResultLists, track_title \in TargetTitles, artists \in TargetArtists :
           ResultsGiven(rs, track_title, artists)
    \/ BestPicked

SpecPick == Init /\ [][NextPick]_vars

\* ---------- cache_key on names and artists ----------
\* str.strip(): without the blanks at both ends
RECURSIVE StripAll(_)
StripAll(s) ==
    IF s = <<>> THEN s
    ELSE IF s[1] = " " THEN StripAll(Tail(s))
    ELSE IF s[Len(s)] = " " THEN StripAll(SubSeq(s, 1, Len(s) - 1))
    ELSE s

\* c < d for two credits as Python strings, the words joined by blanks
RECURSIVE CreditLess(_, _)
CreditLess(c, d) ==
    IF d = <<>> THEN FALSE
    ELSE IF c = <<>> THEN TRUE
    ELSE IF c[1] # d[1] THEN WordRank(c[1]) < WordRank(d[1])
    ELSE CreditLess(Tail(c), Tail(d))

\* sorted(artists)
RECURSIVE SortedCredits(_)
SortedCredits(artists) ==
    IF artists = <<>> THEN <<>>
    ELSE LET p == CHOOSE p \in 1..Len(artists) :
                      \A q \in 1..Len(artists) : ~CreditLess(artists[q], artists[p])
         IN  <<artists[p]>> \o
             SortedCredits([k \in 1..(Len(artists) - 1) |->
                                IF k < p THEN artists[k] ELSE artists[k + 1]])

\* " ".join(sorted(artists)).strip().lower(): the words of the credits, in order
JoinedLower(artists) ==
    LET sorted == SortedCredits(artists)
        Flat[k \in 0..Len(sorted)] ==
            IF k = 0 THEN <<>>
            ELSE Flat[k - 1] \o [p \in 1..Len(sorted[k]) |-> LowerWord(sorted[k][p])]
    IN  Flat[Len(sorted)]

\* f"{service}|{name.strip().lower()}|{a.strip().lower()}", kept as its three parts
cache_key_of(service, name, artists) ==
    <<service, Lower(StripAll(name)), JoinedLower(artists)>>

\* ---------- SearchCache.put, then SearchCache.get ----------
\* cache.put(cache_key(service, name, artists), v) for the track t
RecordPut(service, t, v) ==
    /\ fphase = "idle"
    /\ fphase' = "put"
    /\ farg' = [service |-> service, written |-> t, value |-> v]
    /\ fres' = [data |-> {<<cache_key_of(service, t.name, t.artists), v>>}]
    /\ FnFrame

\* cache.get(cache_key(service, name, artists)) for the track t
RecordGet(t) ==
    /\ fphase = "put"
    /\ fphase' = "got"
    /\ farg' = [service |-> farg.service, written |-> farg.written,
                value |-> farg.value, asked |-> t]
    /\ LET k == cache_key_of(farg.service, t.name, t.artists)
       IN  fres' = [data |-> fres.data,
                    got  |-> IF \E e \in fres.data : e[1] = k
                             THEN (CHOOSE e \in fres.data : e[1] = k)[2]
                             ELSE None]
    /\ FnFrame

NextCacheKey ==
    \/ \E service \in Services, t \in TrackPool, v \in Ids : RecordPut(service, t, v)
    \/ \E t \in TrackPool : RecordGet(t)

SpecCacheKey == Init /\ [][NextCacheKey]_vars

\* ---------- SearchCache ----------
\* what SearchCache finds at its path: no file, a file that cannot be read, a
\* file that is not JSON, a JSON value that is not an object (a list, null, ...),
\* or a JSON object
CacheFiles == {"absent", "unreadable", "not_json", "not_object", "object"}

CacheKeys == 1..NumIds

\* the dicts over CacheKeys; None stands for a key that is absent
CacheDicts == [CacheKeys -> IdOrNone]

EmptyDict == [k \in CacheKeys |-> None]

\* SearchCache._load: self.data after the constructor; json.load of a JSON
\* value that is not an object succeeds and leaves that value in self.data
LoadedShape(file) == IF file = "not_object" THEN "other" ELSE "dict"

LoadedItems(file, content) == IF file = "object" THEN content ELSE EmptyDict

\* SearchCache.__init__ and _load
CacheOpen(file, content) ==
    /\ fphase = "idle"
    /\ fphase' = "cache"
    /\ farg' = [file |-> file]
    /\ fres' = [shape |-> LoadedShape(file), items |-> LoadedItems(file, content),
                prev |-> LoadedItems(file, content), disk |-> LoadedItems(file, content),
                last |-> "load", key |-> None, got |-> None]
    /\ FnFrame

\* SearchCache.get: self.data.get(key); AttributeError when self.data is no dict
CacheGet(k) ==
    /\ fphase = "cache"
    /\ IF fres.shape = "dict"
       THEN /\ fphase' = "cache"
            /\ fres' = [fres EXCEPT !.prev = fres.items, !.last = "get", !.key = k,
                                    !.got = fres.items[k]]
       ELSE /\ fphase' = "cache_raised"
            /\ fres' = [fres EXCEPT !.prev = fres.items, !.last = "get", !.key = k]
    /\ UNCHANGED farg
    /\ FnFrame

\* SearchCache.put: self.data[key] = value; TypeError when self.data is no dict
CacheStore(k, v) ==
    /\ fphase = "cache"
    /\ IF fres.shape = "dict"
       THEN /\ fphase' = "cache"
            /\ fres' = [fres EXCEPT !.prev = fres.items, !.last = "put", !.key = k,
                                    !.items = CachePut(fres.items, k, v)]
       ELSE /\ fphase' = "cache_raised"
            /\ fres' = [fres EXCEPT !.prev = fres.items, !.last = "put", !.key = k]
    /\ UNCHANGED farg
    /\ FnFrame

\* SearchCache.save: the file is written, or the exception is swallowed
CacheSave(ok) ==
    /\ fphase = "cache"
    /\ fphase' = "cache"
    /\ fres' = [fres EXCEPT !.prev = fres.items,
                            !.last = IF ok THEN "save" ELSE "save_failed",
                            !.disk = IF ok THEN fres.items ELSE fres.disk]
    /\ UNCHANGED farg
    /\ FnFrame

NextCache ==
    \/ \E file \in CacheFiles, content \in CacheDicts : CacheOpen(file, content)
    \/ \E k \in CacheKeys : CacheGet(k)
    \/ \E k \in CacheKeys, v \in Ids : CacheStore(k, v)
    \/ \E ok \in BOOLEAN : CacheSave(ok)

SpecCache == Init /\ [][NextCache]_vars

\* ---------- google_music_search ----------
\* what requests.get gives: a result page, a 429 / "sorry" page, or an exception
\* (connection error, timeout, or raise_for_status on another status)
WebResponses == {"page", "rate_limited", "error"}

\* what input("Press ENTER ...") gives: the user's ENTER, or EOFError when the
\* standard input is at its end
PromptAnswers == {"enter", "eof"}

\* after `continue`, and after the except branch: the loop goes on while
\* attempts < 3, then `return []`
AfterAttempt(attempts) == IF attempts < WEB_SEARCH_TRIES THEN "loop" ELSE "returned"

\* google_music_search is called
SearchCalled ==
    /\ fphase = "idle"
    /\ fphase' = "loop"
    /\ farg' = <<>>
    /\ fres' = [attempts |-> 0, log |-> <<>>, results |-> <<"none", 0>>]
    /\ FnFrame

\* one round of the loop up to the answer of requests.get; nres is the number
\* of results on a result page, opened is false when webbrowser.open raises
WebRequest(resp, nres, opened) ==
    /\ fphase = "loop"
    /\ fres.attempts < WEB_SEARCH_TRIES
    /\ LET a == fres.attempts + 1 IN
       CASE resp = "page" ->
              /\ fphase' = "returned"
              /\ fres' = [attempts |-> a, log |-> Append(fres.log, "request"),
                          results |-> <<"uniq", nres>>]
         [] resp = "rate_limited" ->
              /\ fphase' = "captcha"
              /\ fres' = [attempts |-> a,
                          log |-> fres.log \o <<"request", "url_shown">>
                                     \o (IF opened THEN <<"browser_opened">> ELSE <<>>),
                          results |-> <<"none", 0>>]
         [] resp = "error" ->
              /\ fphase' = AfterAttempt(a)
              /\ fres' = [attempts |-> a, log |-> Append(fres.log, "request"),
                          results |-> IF AfterAttempt(a) = "returned" THEN <<"empty", 0>>
                                      ELSE <<"none", 0>>]
    /\ UNCHANGED farg
    /\ FnFrame

\* input("Press ENTER after solving the CAPTCHA to retry"), inside the try block
CaptchaPrompt(answer) ==
    /\ fphase = "captcha"
    /\ fphase' = AfterAttempt(fres.attempts)
    /\ fres' = [fres EXCEPT
                  !.log = IF answer = "enter" THEN Append(@, "acknowledged")
                          ELSE Append(@, "search_failed"),
                  !.results = IF AfterAttempt(fres.attempts) = "returned"
                              THEN <<"empty", 0>> ELSE <<"none", 0>>]
    /\ UNCHANGED farg
    /\ FnFrame

NextSearch ==
    \/ SearchCalled
    \/ \E resp \in WebResponses, nres \in 0..MaxResults, opened \in BOOLEAN :
           WebRequest(resp, nres, opened)
    \/ \E answer \in PromptAnswers : CaptchaPrompt(answer)

SpecSearch == Init /\ [][NextSearch]_vars

\* ---------------------- properties ----------------------

InRun == pc \notin {"menu", "dead"}

\* ---------- C1 ----------
\* C1: within a run, once yt_search_disabled is true no step sets it back to
\* false, and once PLAN_MODE_ONLY is true no step sets it back to false.
C1_FlagsLatch ==
    [][InRun =>
         /\ (STATE_.yt_search_disabled => STATE_'.yt_search_disabled)
         /\ (PLAN_MODE_ONLY => PLAN_MODE_ONLY')]_vars

\* both flags are set and the run has gone on to a later item
C1_Witness ==
    /\ pc = "item" /\ i > 1
    /\ STATE_.yt_search_disabled /\ PLAN_MODE_ONLY
    /\ insertLog # <<>>

\* ---------- C2 ----------
\* C2: with a YouTube destination, a step issues a catalog search request only
\* from a state where yt_search_disabled and PLAN_MODE_ONLY are both false and
\* no quota error has been received.
C2_SearchOnlyInNormal ==
    [][(dst = "youtube" /\ "search_req" \in evs') =>
         (~STATE_.yt_search_disabled /\ ~PLAN_MODE_ONLY /\ ~quotaSeen)]_vars

\* a later item, after the quota signal, has skipped the search
C2_Witness ==
    /\ dst = "youtube" /\ i > 1 /\ quotaSeen
    /\ "cache_get" \in evs /\ tried = <<"cache">>
    /\ pc \in {"web", "manual"}

\* ---------- C3 ----------
\* C3: a quota error from the catalog search, answered with manual or web-auto,
\* leaves yt_search_disabled true, was prompted in that step as the only prompt
\* of the run, and the same item goes on to web fallback or manual entry; no run
\* shows the after-quota prompt twice.
C3_QuotaOnSearch ==
    /\ [](promptCount <= 1)
    /\ [][("search_quota" \in evs'
            /\ (STATE_'.continue_manual_after_quota
                   \/ STATE_'.continue_web_auto_after_quota)) =>
           /\ "quota_prompt" \in evs'
           /\ promptCount' = 1
           /\ STATE_'.yt_search_disabled
           /\ i' = i /\ vid' = None
           /\ (STATE_'.continue_manual_after_quota => pc' = "manual")
           /\ (~STATE_'.continue_manual_after_quota => pc' = "web")]_vars

\* the search of item 2 hit the quota, web-auto was chosen, the item is at the web step
C3_Witness ==
    /\ "search_quota" \in evs /\ "quota_prompt" \in evs
    /\ i = 2 /\ pc = "web"
    /\ STATE_.continue_web_auto_after_quota
    /\ STATE_.yt_search_disabled /\ promptCount = 1

\* ---------- C4 ----------
\* C4 (as stated): a catalog search that fails with an HTTP error other than
\* quotaExceeded shows no after-quota prompt, leaves STATE and PLAN_MODE_ONLY
\* unchanged, and the item goes on to the next strategy.
C4_NonQuotaFallsThrough ==
    [][("search_error" \in evs' /\ "search_quota" \notin evs') =>
         /\ "quota_prompt" \notin evs'
         /\ STATE_' = STATE_
         /\ PLAN_MODE_ONLY' = PLAN_MODE_ONLY
         /\ i' = i
         /\ pc' \in {"web", "manual", "sp_manual"}]_vars

\* ---------- C5 ----------
Rank(st) == CASE st = "cache" -> 1 [] st = "search" -> 2
              [] st = "web" -> 3 [] st = "manual" -> 4

\* C5: the strategies tried for an item are in the order cache, search, web,
\* manual without repetition; the one that produced the identifier is the last
\* one tried; a further strategy is tried only while none has produced an
\* identifier; after a cache hit nothing else has been tried.
C5_CascadeOrder ==
    /\ [](/\ \A a, b \in 1..Len(tried) : a < b => Rank(tried[a]) < Rank(tried[b])
          /\ hitAt # "none" => (tried # <<>> /\ hitAt = tried[Len(tried)])
          /\ hitAt = "cache" => tried = <<"cache">>)
    /\ [][(tried' # tried /\ tried' # <<>>) =>
           \/ pc = "item" /\ tried' = <<"cache">>
           \/ /\ hitAt = "none" /\ tried # <<>>
              /\ \E st \in {"search", "web", "manual"} : tried' = Append(tried, st)]_vars

\* all four strategies were tried in turn and the last one gave the identifier
C5_Witness ==
    /\ tried = <<"cache", "search", "web", "manual">>
    /\ hitAt = "manual" /\ pc = "step3" /\ vid # None

C7_PlanningQueuesAll ==
    [][(runs = 1 /\ pc = "step3" /\ PLAN_MODE_ONLY /\ pc' # "dead") =>
         /\ insertLog' = insertLog
         /\ vid \in Range(pending_web_adds')]_vars

\* C7 (amended): with a YouTube destination and PLAN_MODE_ONLY true no step
\* issues an insert; step 3 appends the resolved identifier to pending_web_adds
\* when it is not in added_video_ids, and leaves the queue as it is otherwise.
C7_PlanningQueuesNew ==
    [][(dst = "youtube" /\ PLAN_MODE_ONLY) =>
         /\ "insert_req" \notin evs' /\ insertLog' = insertLog
         /\ (pc = "step3" /\ pc' # "dead") =>
                /\ vid \notin added_video_ids =>
                       pending_web_adds' = Append(pending_web_adds, vid)
                /\ vid \in added_video_ids => pending_web_adds' = pending_web_adds
                /\ vid \in added_video_ids']_vars

\* planning mode met an identifier that had been inserted before: not queued
C7_Witness ==
    /\ runs = 1 /\ PLAN_MODE_ONLY /\ "plan_branch" \in evs /\ "queued" \notin evs
    /\ pending_web_adds # <<>>
    /\ \E e \in Range(insertLog) : e[1] = "youtube" /\ e[2] \notin Range(pending_web_adds)

\* ---------- C8 ----------
NoDup(q) == \A a, b \in 1..Len(q) : a # b => q[a] # q[b]

\* C8 (as stated): in a run no identifier is written to the destination twice,
\* none is twice in pending_web_adds, none is both written and queued.
C8_NoDuplicateWrites ==
    /\ NoDup(insertLog)
    /\ NoDup(pending_web_adds)
    /\ \A v \in Range(pending_web_adds) : <<"youtube", v>> \notin Range(insertLog)

\* ---------- C9 ----------
\* C9: an insert that fails with quotaExceeded, answered yes, appends the
\* identifier to pending_web_adds, sets PLAN_MODE_ONLY and goes on to the next
\* item (or to the end of the list); answered no, the run stops there.
C9_InsertQuota ==
    [][/\ ("insert_quota" \in evs' /\ "plan_yes" \in evs') =>
              /\ pending_web_adds' = Append(pending_web_adds, vid)
              /\ PLAN_MODE_ONLY'
              /\ outcome' = "running"
              /\ IF i < n THEN pc' = "item" /\ i' = i + 1 ELSE pc' = "finish"
       /\ ("insert_quota" \in evs' /\ "plan_no" \in evs') =>
              /\ pc' = "menu" /\ outcome' = "stopped"
              /\ pending_web_adds' = pending_web_adds
              /\ insertLog' = insertLog]_vars

\* the insert of item 1 hit the quota, planning was approved, item 2 is next
C9_Witness ==
    /\ "insert_quota" \in evs /\ "plan_yes" \in evs
    /\ pc = "item" /\ i = 2 /\ PLAN_MODE_ONLY
    /\ Len(pending_web_adds) = 1

\* ---------- C10 ----------
\* C10 (as stated): a run ends by completing, by a user stop or by an
\* interrupt, never by the failure of a remote call.
C10_NoAbort ==
    outcome # "error"

\* ---------- C11 ----------
\* C11 (as stated): a run that has just been started from the menu has all four
\* STATE flags and PLAN_MODE_ONLY false and pending_web_adds and
\* added_video_ids empty, also when it is not the first run of the process.
C11_FreshRunState ==
    evs = {"start"} =>
        /\ ~STATE_.yt_search_disabled
        /\ ~STATE_.prompted_after_quota
        /\ ~STATE_.continue_manual_after_quota
        /\ ~STATE_.continue_web_auto_after_quota
        /\ ~PLAN_MODE_ONLY
        /\ pending_web_adds = <<>>
        /\ added_video_ids = {}

\* ---------- C12 ----------
\* C12: the planning-mode prompt is shown only in a step in which the
\* destination read or an insert failed with quotaExceeded, and no run shows it
\* twice.
C12_PlanPromptOnce ==
    /\ [](planPromptCount <= 1)
    /\ [][("plan_prompt" \in evs') =>
           /\ ("read_quota" \in evs' \/ "insert_quota" \in evs')
           /\ quotaSeen'
           /\ planPromptCount = 0 /\ planPromptCount' = 1]_vars

\* planning was approved after an insert hit the quota and the run went on to its end
C12_Witness ==
    /\ planPromptCount = 1 /\ PLAN_MODE_ONLY
    /\ pc = "finish" /\ n = MaxItems
    /\ insertLog # <<>> /\ pending_web_adds # <<>>

\* ---------- C13 ----------
\* C13: the step in which manual mode is chosen sends the current item to manual
\* entry; from then on the flag stays set for the run, no step queries the web
\* fallback or the catalog, and an item that is not in the cache goes from the
\* cache lookup straight to manual entry.
C13_ManualSkipsWeb ==
    [][/\ (~STATE_.continue_manual_after_quota /\ STATE_'.continue_manual_after_quota) =>
              (pc' = "manual" /\ i' = i /\ "web_query" \notin evs')
       /\ STATE_.continue_manual_after_quota =>
              /\ "web_query" \notin evs'
              /\ dst = "youtube" => "search_req" \notin evs'
              /\ InRun => STATE_'.continue_manual_after_quota
              /\ (pc = "item" /\ dst = "youtube" /\ pc' # "dead"
                     /\ cache[cache_key("youtube", i)] = None) => pc' = "manual"]_vars

\* manual mode was chosen on item 1; item 2 missed the cache and is at manual entry
C13_Witness ==
    /\ runs = 1 /\ STATE_.continue_manual_after_quota
    /\ i = 2 /\ pc = "manual" /\ tried = <<"cache">>
    /\ promptCount = 1

\* ---------- C14 ----------
\* C14 (as stated): the web fallback gives an identifier for an item only when
\* the best candidate scores at least 0.35 or the user has picked one of the
\* shown candidates by its index.
C14_WebAcceptance ==
    [][(pc = "web" /\ hitAt' = "web") =>
         ("score_ok" \in evs' \/ "picked" \in evs')]_vars

\* ---------- C15 ----------
\* an attempt after which the claim allows the call to be issued again
TransientAttempt(a) ==
    \/ a.kind = "timeout"
    \/ a.kind = "spotify" /\ a.status = 429
    \/ a.kind = "http" /\ a.status \in 500..599
    \/ a.kind = "http" /\ a.status = 429
    \/ a.kind = "http" /\ a.status = 403 /\ a.rate /\ ~a.quota

\* C15: retry_call makes at most RETRY_MAX_TRIES attempts; every attempt but the
\* last ended in a transient error; it returns at the first attempt that
\* succeeds, raises at the first error that is not transient or at a transient
\* one on attempt RETRY_MAX_TRIES; and it comes to an end.
C15_RetryBounded ==
    /\ [](/\ rtries <= RETRY_MAX_TRIES /\ Len(routs) = rtries
          /\ \A k \in 1..(Len(routs) - 1) : TransientAttempt(routs[k])
          /\ rpc = "calling" => \A k \in 1..Len(routs) : TransientAttempt(routs[k])
          /\ rpc = "returned" => routs[Len(routs)].kind = "ok"
          /\ rpc = "raised" =>
                /\ routs[Len(routs)].kind # "ok"
                /\ (TransientAttempt(routs[Len(routs)]) => rtries = RETRY_MAX_TRIES))
    /\ <>(rpc \in {"returned", "raised"})

\* four transient errors, then the fifth attempt succeeds
C15_Witness ==
    /\ rpc = "returned" /\ rtries = RETRY_MAX_TRIES
    /\ routs[1].kind = "timeout" /\ routs[2].kind = "http" /\ routs[3].kind = "spotify"

\* ---------- C16 ----------
\* C16: an attempt that ends with HTTP 403 whose text holds "quota" and
\* "exceeded" is the last one, whatever its number: retry_call sets
\* yt_search_disabled and raises.
C16_QuotaNotRetried ==
    [][(rpc = "calling" /\ rtries' = rtries + 1
          /\ routs'[rtries'].kind = "http" /\ routs'[rtries'].status = 403
          /\ routs'[rtries'].quota) =>
         (rpc' = "raised" /\ STATE_'.yt_search_disabled)]_vars

\* the third attempt hit the quota, with a text that also names a rate limit
C16_Witness ==
    /\ rpc = "raised" /\ rtries = 3
    /\ routs[3] = Att("http", 403, TRUE, TRUE)
    /\ STATE_.yt_search_disabled

\* ---------- C17 ----------
\* C17 (as stated): clean_title applied to a value of clean_title gives that value.
C17_CleanTitleIdempotent ==
    fphase = "done" => clean_title(fres) = fres

\* ---------- C18 ----------
\* a is b with some elements left out, each element of a standing for the
\* first element of b equal to it
FirstSeenSubseq(a, b) ==
    \E f \in [1..Len(a) -> 1..Len(b)] :
        /\ \A k \in 1..Len(a) : /\ b[f[k]] = a[k]
                                /\ \A j \in 1..(f[k] - 1) : b[j] # a[k]
        /\ \A k \in 1..(Len(a) - 1) : f[k] < f[k + 1]

\* C18: deduplicate_tracks applied to its own output returns that output, and
\* the output is a subsequence of the input: at most as long, the kept tracks in
\* their first-seen order.
C18_DedupeIdempotent ==
    fphase = "deduped" =>
        /\ deduplicate_tracks(fres) = fres
        /\ Len(fres) <= Len(farg)
        /\ FirstSeenSubseq(fres, farg)

\* a list of three tracks of which the middle one is dropped
C18_Witness ==
    /\ fphase = "deduped"
    /\ Len(farg) = 3 /\ Len(fres) = 2
    /\ fres = <<farg[1], farg[3]>>
    /\ farg[2] # farg[1]

\* ---------- C19 ----------
\* the track at position p of the input is in the output
KeptAt(p) ==
    /\ farg[p] \in Range(fres)
    /\ \A j \in 1..(p - 1) : farg[j] # farg[p]

SameLooseKey(s, t) == key_loose(s.name, s.artists) = key_loose(t.name, t.artists)

SameTitleKey(s, t) == key_title_only(s.name) = key_title_only(t.name)

\* C19: deduplicate_tracks keeps a track iff no earlier kept track has the same
\* loose key or the same title key; of two tracks with the same title key the
\* later one is never kept, whatever their artists.
C19_KeepsFirstOfKey ==
    fphase = "deduped" =>
        \A p \in 1..Len(farg) :
            /\ KeptAt(p) <=>
                   ~(\E j \in 1..(p - 1) :
                         /\ KeptAt(j)
                         /\ SameLooseKey(farg[j], farg[p]) \/ SameTitleKey(farg[j], farg[p]))
            /\ (\E j \in 1..(p - 1) : SameTitleKey(farg[j], farg[p])) => ~KeptAt(p)

\* "Song (Official Video)" by a, then "Song - Radio Edit" by bb: the first is kept
C19_Witness ==
    /\ fphase = "deduped"
    /\ farg = << [name |-> <<"w", " ", "(", "o", ")">>, artists |-> << <<"a">> >>],
                 [name |-> <<"w", " ", "-", " ", "Q">>, artists |-> << <<"bb">> >>] >>
    /\ fres = << farg[1] >>
    /\ ~SameLooseKey(farg[1], farg[2])
    /\ key_title_only(farg[1].name) = <<"w">>

\* ---------- C20 ----------
\* the source track t has neither of its keys among those of the tracks ds
KeysAbsent(t, ds) ==
    /\ key_loose(t.name, t.artists) \notin {key_loose(d.name, d.artists) : d \in Range(ds)}
    /\ key_title_only(t.name) \notin {key_title_only(d.name) : d \in Range(ds)}

\* C20: reconciliation splits the deduplicated source into the missing tracks
\* and the present ones, no track lost or counted twice: a source track is
\* missing iff neither its loose key nor its title key is among the keys of the
\* destination, and the missing list keeps the order of the source.
C20_ReconcileSplit ==
    fphase = "reconciled" =>
        LET src     == farg.src_tracks
            missing == {p \in 1..Len(src) : src[p] \in Range(fres.to_add)}
            present == {p \in 1..Len(src) : src[p] \notin Range(fres.to_add)}
        IN  /\ src = deduplicate_tracks(farg.source)
            /\ Range(fres.to_add) \subseteq Range(src)
            /\ Cardinality(missing) = Len(fres.to_add)
            /\ Cardinality(missing) + Cardinality(present) = Len(src)
            /\ \A p \in 1..Len(src) :
                   /\ p \in missing <=> KeysAbsent(src[p], farg.dst_tracks)
                   /\ p \in missing <=> KeysAbsent(src[p], farg.destination)
            /\ FirstSeenSubseq(fres.to_add, src)

\* "Song" is present by its title key alone, "Song_Remix" is missing
C20_Witness ==
    /\ fphase = "reconciled"
    /\ Len(farg.src_tracks) = 2 /\ Len(farg.dst_tracks) = 1
    /\ fres.to_add = << farg.src_tracks[2] >>
    /\ key_loose(farg.src_tracks[1].name, farg.src_tracks[1].artists)
           \notin dst_keyset(farg.dst_tracks)
    /\ key_title_only(farg.src_tracks[1].name) \in dst_titles(farg.dst_tracks)

\* ---------- C21 ----------
\* positions of the deduplicated source whose loose key the destination has
LooseMatched ==
    {p \in 1..Len(farg.src_tracks) :
        key_loose(farg.src_tracks[p].name, farg.src_tracks[p].artists)
            \in {key_loose(d.name, d.artists) : d \in Range(farg.dst_tracks)}}

\* the count is the number of common loose keys, a track matched by its title
\* key alone is neither missing nor counted, and an empty destination gives
\* count 0 and every source track missing
C21_CountOfLooseKeys ==
    /\ fres.already = Cardinality(LooseMatched)
    /\ \A p \in 1..Len(farg.src_tracks) :
           p \in LooseMatched => farg.src_tracks[p] \notin Range(fres.to_add)
    /\ farg.destination = <<>> => fres.already = 0 /\ fres.to_add = farg.src_tracks

\* C21 (as stated): alreadyMatchedCount is the number of loose keys common to
\* the deduplicated source and the destination; with an empty destination it is
\* 0 and all is missing; when source and destination contain the same tracks,
\* nothing is missing and the count is the number of deduplicated source tracks.
C21_AlreadyAsStated ==
    fphase = "reconciled" =>
        /\ C21_CountOfLooseKeys
        /\ Range(farg.source) = Range(farg.destination) =>
               fres.to_add = <<>> /\ fres.already = Len(farg.src_tracks)

\* C21 (amended): the same, the last case being that the deduplicated source
\* and the deduplicated destination contain the same tracks.
C21_AlreadyMatched ==
    fphase = "reconciled" =>
        /\ C21_CountOfLooseKeys
        /\ Range(farg.src_tracks) = Range(farg.dst_tracks) =>
               fres.to_add = <<>> /\ fres.already = Len(farg.src_tracks)

\* two source tracks, one counted, one present by its title key alone
C21_Witness ==
    /\ fphase = "reconciled"
    /\ Len(farg.src_tracks) = 2
    /\ fres.to_add = <<>>
    /\ fres.already = 1
    /\ Cardinality(LooseMatched) = 1

\* ---------- C22 ----------
\* the ratio of the normalized titles reaches the threshold, and the artist
\* signatures intersect or one of them is empty
Similar(s, t, threshold) ==
    LET sa == Range(clean_artists(s.artists))
        ta == Range(clean_artists(t.artists))
    IN  /\ RatioAtLeast(utils_clean_title(s.name), utils_clean_title(t.name), threshold)
        /\ sa \cap ta # {} \/ sa = {} \/ ta = {}

\* positions of the playlist whose entry is in the output
DupPos == {p \in 1..Len(farg.tracks) : farg.tracks[p] \in Range(fres)}

\* C22: _detect_duplicates returns, in input order, exactly the tracks similar
\* to an earlier track that was kept; a duplicate is never a reference, the
\* first track is never a duplicate, no kept track is in the output.
C22_DuplicatesOfKept ==
    fphase = "detected" =>
        /\ \A p \in 1..Len(farg.tracks) :
               p \in DupPos <=>
                   \E j \in 1..(p - 1) :
                       j \notin DupPos /\ Similar(farg.tracks[p], farg.tracks[j], farg.threshold)
        /\ 1 \notin DupPos
        /\ Range(fres) \subseteq Range(farg.tracks)
        /\ Len(fres) = Cardinality(DupPos)
        /\ FirstSeenSubseq(fres, farg.tracks)

\* the second entry is a duplicate of the first; the third is similar to the
\* second only, and is kept
C22_Witness ==
    /\ fphase = "detected"
    /\ Len(farg.tracks) = 3
    /\ fres = << farg.tracks[2] >>
    /\ Similar(farg.tracks[3], farg.tracks[2], farg.threshold)
    /\ ~Similar(farg.tracks[3], farg.tracks[1], farg.threshold)

\* ---------- C30 ----------
\* the stop-word list of the specification
ListedStopWords == {"the", "a", "an", "official", "video", "audio", "lyric", "lyrics",
                    "remix", "edit", "radio", "version", "feat", "ft", "con", "with",
                    "featuring"}

\* the alphanumeric words of the lowercased text that are not listed stop words
OtherWords(s) ==
    {w \in SplitWords(LowerText(s)) : ~(Len(w) = 1 /\ w[1] \in ListedStopWords)}

\* C30 (as stated): token_set returns no listed stop word and every other
\* alphanumeric word of the lowercased text.
C30_TokenSetStopWords ==
    fphase = "tokens" =>
        /\ fres.legacy_sync = OtherWords(farg)
        /\ fres.websearch = OtherWords(farg)

\* ---------- C23 ----------
\* C23: every score of pick_best_web_result lies in [-0.08, 1.15], and jaccard
\* is 0.0 whenever one of its two token sets is empty, two empty sets included.
C23_ScoreBounds ==
    fphase = "picked" =>
        /\ \A k \in 1..Len(fres.scored) :
               /\ FracLeq(Frac(-8, 100), fres.scored[k].score)
               /\ FracLeq(fres.scored[k].score, Frac(115, 100))
        /\ \A k \in 1..Len(farg.results) :
               LET want == WantTokens(farg.track_title, farg.artists)
                   got  == token_set(farg.results[k].t)
               IN  (want = {} \/ got = {}) =>
                       /\ jaccard(want, got).num = 0
                       /\ jaccard(want, {}).num = 0
                       /\ jaccard({}, got).num = 0
        /\ jaccard({}, {}).num = 0

\* both ends of the interval are met: an exact title scores 1.15, and a
\* playlist whose title has no token scores -0.08
C23_Witness ==
    /\ fphase = "picked"
    /\ Len(fres.scored) = 2
    /\ FracLeq(Frac(115, 100), fres.scored[1].score)
    /\ FracLeq(fres.scored[2].score, Frac(-8, 100))
    /\ WantTokens(farg.track_title, farg.artists) # {}
    /\ token_set(farg.results[2].t) = {}

\* ---------- C24 ----------
\* the greatest score of the scored candidates is at least 0.35
MaxAccepted ==
    \E k \in 1..Len(fres.scored) :
        /\ Accepted(fres.scored[k])
        /\ \A j \in 1..Len(fres.scored) : FracLeq(fres.scored[j].score, fres.scored[k].score)

\* the tokens of candidate k are those of the target title
ExactCandidate(k) == token_set(farg.results[k].t) = token_set(farg.track_title)

\* candidate k has the tokens of the target title and at least one more
ExtraTokenCandidate(k) ==
    /\ token_set(farg.track_title) \subseteq token_set(farg.results[k].t)
    /\ token_set(farg.track_title) # token_set(farg.results[k].t)

\* C24 (as stated): every candidate is scored; the identifier of a candidate of
\* maximum score is returned if that score is >= 0.35 and none otherwise; without
\* artists, a candidate with exactly the tokens of the target title scores at
\* least as high as one with an extra token, and is the one selected.
C24_BestAboveThreshold ==
    fphase = "picked" =>
        /\ Len(fres.scored) = Len(farg.results)
        /\ MaxAccepted <=> fres.value # None
        /\ fres.value # None =>
               \E k \in 1..Len(fres.scored) :
                   /\ \A j \in 1..Len(fres.scored) :
                          FracLeq(fres.scored[j].score, fres.scored[k].score)
                   /\ fres.value = fres.scored[k].u.id
        /\ farg.artists = <<>> =>
               \A k \in 1..Len(farg.results), j \in 1..Len(farg.results) :
                   (ExactCandidate(k) /\ ExtraTokenCandidate(j)) =>
                       /\ FracLeq(fres.scored[j].score, fres.scored[k].score)
                       /\ \E e \in 1..Len(farg.results) :
                              ExactCandidate(e) /\ fres.value = farg.results[e].u.id

\* ---------- C25 ----------
\* C25 (as stated): two tracks of one service with the same normalized title and
\* the same artist tokens have the same cache key, so that the record written
\* for one is returned by the lookup for the other.
C25_KeyOfNormalizedFields ==
    (/\ fphase = "got"
     /\ clean_title(farg.written.name) = clean_title(farg.asked.name)
     /\ clean_artists(farg.written.artists) = clean_artists(farg.asked.artists)) =>
        /\ cache_key_of(farg.service, farg.written.name, farg.written.artists)
               = cache_key_of(farg.service, farg.asked.name, farg.asked.artists)
        /\ fres.got = farg.value

\* ---------- C26 ----------
\* C26 (as stated): no cache operation raises; a failed save leaves the
\* in-memory cache as it was; after an unreadable or malformed file the cache
\* is empty, get returns none, and put followed by get works.
C26_CacheFailuresSwallowed ==
    /\ fphase # "cache_raised"
    /\ fphase = "cache" =>
           /\ fres.last = "save_failed" => fres.items = fres.prev
           /\ (fres.last = "load" /\ farg.file \in {"unreadable", "not_json", "not_object"}) =>
                  fres.shape = "dict" /\ fres.items = EmptyDict
           /\ fres.last = "get" => fres.got = fres.items[fres.key]

\* ---------- C27 ----------
\* q begins with p
IsPrefix(p, q) == Len(p) <= Len(q) /\ SubSeq(q, 1, Len(p)) = p

\* C27: a run is strictly additive: every step of a run leaves the items of
\* the destination in place, and the destination changes only by an insert
\* request, which adds items at the end.
C27_AddOnly ==
    [][pc # "menu" =>
          /\ IsPrefix(insertLog, insertLog')
          /\ insertLog' # insertLog => "insert_req" \in evs']_vars

\* two writes in one run, the first still in place after the second
C27_Witness ==
    /\ pc # "menu"
    /\ Len(insertLog) = 2
    /\ insertLog[1] # insertLog[2]

\* ---------- C28 ----------
\* the number of requests sent so far
RequestCount == Cardinality({p \in 1..Len(fres.log) : fres.log[p] = "request"})

\* C28 (as stated): after a rate-limit answer the challenge URL is shown and
\* the next request is sent only after the user's acknowledgement; at most 3
\* requests are sent; after 3 failed attempts the result is the empty list.
C28_SearchAfterAcknowledgement ==
    fphase \in {"loop", "captcha", "returned"} =>
        /\ RequestCount <= 3
        /\ \A p \in 1..Len(fres.log), q \in 1..Len(fres.log) :
               (p < q /\ fres.log[p] = "url_shown" /\ fres.log[q] = "request") =>
                   \E r \in (p + 1)..(q - 1) : fres.log[r] = "acknowledged"
        /\ (fphase = "returned" /\ fres.results[1] # "uniq") =>
               fres.results = <<"empty", 0>> /\ RequestCount = 3

\* ---------- C29 ----------
\* the artist list with its credits in the order f
Reordered(artists, f) == [k \in 1..Len(artists) |-> artists[f[k]]]

\* C29: clean_artists returns at most 2 distinct tokens, the longer first and
\* of two tokens of one length the lexically smaller first, and the result does
\* not depend on the order of the credits.
C29_ArtistSignature ==
    fphase = "signature" =>
        /\ Len(fres) \in {0, 1, 2}
        /\ Len(fres) = 2 =>
               /\ fres[1] # fres[2]
               /\ \/ WordLen(fres[1]) > WordLen(fres[2])
                  \/ WordLen(fres[1]) = WordLen(fres[2]) /\ WordRank(fres[1]) < WordRank(fres[2])
        /\ \A f \in Permutations(1..Len(farg)) : clean_artists(Reordered(farg, f)) = fres

\* two credits with three names between them, two of one length
C29_Witness ==
    /\ fphase = "signature"
    /\ farg = << <<"cc", "a">>, <<"bb">> >>
    /\ fres = <<"bb", "cc">>
    /\ clean_artists(<<farg[2], farg[1]>>) = fres

\* ---------- C31 ----------
\* C31: after remove_duplicates the playlist holds exactly the entries that
\* _detect_duplicates did not classify as duplicates, also when a duplicate has
\* the URI of a kept entry and the adapter is the Spotify adapter.
C31_OnlyDuplicatesGone ==
    fphase = "removed" =>
        LET duplicates == Range(detect_duplicates(farg.tracks, 90))
            Kept(e) == e \notin duplicates
        IN  fres = SelectSeq(farg.tracks, Kept)

\* ---------- C32 ----------
\* C32: after add_identifiers returns without error, every non-empty identifier
\* it was given is in the target playlist, also an identifier that was inserted
\* earlier in the same process into a different playlist.
C32_GivenAreInTarget ==
    (fphase = "added" /\ fres.returned) =>
        \A k \in 1..Len(farg.video_ids) :
            farg.video_ids[k] # None =>
                farg.video_ids[k] \in Range(fres.playlists[farg.playlist_id])

\* ---------- C33 ----------
\* NORMAL, SEARCH_DISABLED, PLANNING as 0, 1, 2
ModeRank(S, P) == IF P THEN 2 ELSE IF S.yt_search_disabled THEN 1 ELSE 0

\* C33: planning mode implies that catalog search is disabled; planning mode is
\* entered only with a quota error received, and the mode never goes back from
\* PLANNING to SEARCH_DISABLED or from SEARCH_DISABLED to NORMAL.
C33_PlanningAfterSearchDisabled ==
    /\ [](PLAN_MODE_ONLY => STATE_.yt_search_disabled)
    /\ [][/\ ModeRank(STATE_', PLAN_MODE_ONLY') >= ModeRank(STATE_, PLAN_MODE_ONLY)
          /\ (PLAN_MODE_ONLY' /\ ~PLAN_MODE_ONLY) => quotaSeen']_vars

\* the insert of an item met the quota error with search still enabled, and the
\* user accepted planning mode
C33_Witness ==
    /\ pc \notin {"menu"}
    /\ dst = "youtube"
    /\ PLAN_MODE_ONLY /\ STATE_.yt_search_disabled
    /\ "insert_quota" \in evs

\* ---------- C34 ----------
\* C34: within a run continue_manual_after_quota and
\* continue_web_auto_after_quota are never both true.
C34_OneContinuationMode ==
    pc # "menu" =>
        ~(STATE_.continue_manual_after_quota /\ STATE_.continue_web_auto_after_quota)

\* ---------- C35 ----------
\* the destination read failed with the quota error and the answer was cont
ReadQuota(cont) ==
    /\ fphase \notin {"idle", "source_read"}
    /\ farg.out = "quota" /\ farg.cont = cont

\* C35: when the destination read fails with the quota error and planning mode
\* is accepted, the run is in planning mode, every deduplicated source track is
\* a missing item, the already-matched count is 0 and no search or insert call
\* is made in the rest of the run; when planning mode is declined the run ends
\* with no item resolved.
C35_PlanningFromDestinationRead ==
    /\ ReadQuota(TRUE) =>
          /\ fres.PLAN_MODE_ONLY /\ fres.STATE_.yt_search_disabled
          /\ fres.to_add = fres.src_tracks
          /\ fres.already = 0
          /\ fres.calls = {}
          /\ fphase \in {"loop", "finished"}
    /\ ReadQuota(FALSE) =>
          /\ fphase = "stopped"
          /\ fres.i = 0 /\ fres.calls = {} /\ fres.to_add = <<>>

\* planning mode from the destination read, two source tracks, both rounds done
C35_Witness ==
    /\ ReadQuota(TRUE)
    /\ fphase = "finished"
    /\ Len(fres.src_tracks) = 2
    /\ fres.i = 3

\* ---------- C36 ----------
\* C36: a run with a YouTube destination that ends normally in planning mode
\* with pending_web_adds not empty writes every pending identifier to the
\* planning file once, in the order of the queue; the queue grows only by the
\* identifier just resolved, at its end; and no identifier that the run
\* inserted through the API is in the file.
C36_ExportOfPending ==
    [][/\ (pc' = "menu" /\ outcome' = "completed" /\ dst = "youtube"
              /\ PLAN_MODE_ONLY /\ pending_web_adds # <<>>) =>
             /\ exported' = pending_web_adds
             /\ NoDup(exported')
             /\ \A k \in 1..Len(exported') :
                    <<"youtube", exported'[k]>> \notin Range(insertLog)
       /\ pending_web_adds' # pending_web_adds =>
             /\ vid # None
             /\ pending_web_adds' = Append(pending_web_adds, vid)]_vars

\* the first run queued identifier 2, then identifier 1, and wrote the file
C36_Witness ==
    /\ pc = "menu" /\ outcome = "completed" /\ runs = 1
    /\ PLAN_MODE_ONLY
    /\ pending_web_adds = <<2, 1>>
    /\ exported = <<2, 1>>

\* ---------- C37 ----------
RECURSIVE Concat(_, _)
Concat(ss, k) == IF k > Len(ss) THEN <<>> ELSE ss[k] \o Concat(ss, k + 1)

\* C37: when the batch add has returned, the batches passed to
\* playlist_add_items, one after the other, are the resolved URIs, each once and
\* in their order; no batch is empty and none has more than SPOTIFY_ADD_BATCH
\* URIs; for every number of resolved URIs.
C37_BatchesCoverUris ==
    fphase = "added" =>
        /\ Concat(fres.calls, 1) = farg.uris
        /\ \A k \in 1..Len(fres.calls) :
               /\ fres.calls[k] # <<>>
               /\ Len(fres.calls[k]) <= SPOTIFY_ADD_BATCH

\* 201 URIs through main: batches of 100, 100 and 1
C37_Witness ==
    /\ fphase = "added"
    /\ farg.via = "main"
    /\ Len(farg.uris) = 2 * SPOTIFY_ADD_BATCH + 1
    /\ Len(fres.calls) = 3
    /\ fres.calls[3] = <<2 * SPOTIFY_ADD_BATCH + 1>>

\* ---------- C38 ----------
\* C38: when add_tracks_interactive has ended, the identifiers found for its
\* entries have been passed to add_identifiers in one call, in entry order, also
\* when the search of a later entry failed; and add_identifiers has not been
\* called when no identifier was found.
C38_QueuedAreAdded ==
    fphase = "menu" =>
        fres.calls = IF fres.found # <<>> THEN <<fres.found>> ELSE <<>>

\* ---------- C39 ----------
\* C39: two tracks with equal loose keys have equal title keys and equal artist
\* signatures, also when a title or an artist name holds ':' characters.
C39_LooseKeyDeterminesParts ==
    (fphase = "keyed" /\ fres[1].loose = fres[2].loose) =>
        /\ fres[1].title = fres[2].title
        /\ fres[1].artists = fres[2].artists

====
